---- MODULE Spec2Model ----
(***************************************************************************)
(* A model of shopify_dev_utils: the leaky-bucket throttle of the REST     *)
(* client (src/requestor_factories/api_requests.js), the task runners      *)
(* run_sync / run_async (src/utils.js) and the watch-event handlers of     *)
(* src/index.js.                                                            *)
(***************************************************************************)
EXTENDS Integers, Sequences, FiniteSets, TLC

VARIABLES
    \* ---- api_requests.js, module state of the throttle ----
    request_count,      \* let request_count = 0
    overflow,           \* const overflow = []  (queued make_request closures, by request id)
    is_polling,         \* let is_polling = false
    is_throttling,      \* let is_throttling = false
    poll_timers,        \* number of pending setTimeout callbacks armed by poller()
    throttle_timers,    \* number of pending setTimeout callbacks armed by throttler()
    submitted,          \* number of requestor() calls made so far (request ids 1..submitted)
    started,            \* ids of the requests whose make_request() ran, in order
    failures,           \* ids of the requests that ended in a failure (non-2xx or "error")
    \* ---- utils.js, one invocation of run_sync ----
    sync_tasks,         \* the requestors array: how each requestor behaves
    sync_cb_throws,     \* whether the cb given to run_sync throws when it is given null
    sync_pc,            \* "ready", "running" (a requestor has I/O in flight), "done", "uncaught"
    next_number,        \* let next_number = 0
    sync_waiting,       \* index of the requestor whose I/O is in flight, 0 if none
    sync_invoked,       \* the requestor calls made: [task, value]
    sync_failures,      \* the failure signals made by requestors: [task, reason, invoked]
    sync_done,          \* the calls of cb made: [value, reason]
    sync_escaped,       \* an exception left run_sync and reached its caller
    \* ---- utils.js, one invocation of run_async ----
    async_n,            \* requestors.length
    async_cb_throws,    \* whether the cb given to run_async throws when it is given null
    async_pc,           \* "ready", "running", "uncaught" (an exception reached the event loop)
    async_task,         \* per requestor: "scheduled", "running" (I/O in flight), "checked_in"
    async_result,       \* per requestor: "none", "ok", "fail" (what it gave check_in)
    num_checked_in,     \* let num_checked_in = 0
    async_done,         \* the calls of cb made: [failed, reason]
    async_timer,        \* let timer: "no_limit", "limit" (time_limit given, not yet set),
                        \* "pending", "fired" (requestors = undefined) or "cleared"
    async_writes,       \* per requestor: whether it writes to the value it is handed
    async_context,      \* initial_value, the object: the requestors that wrote to it
    async_seen,         \* per requestor: the writes in the value when it was handed it
    \* ---- index.js, theme_event_handler ----
    theme_input,        \* the watch event handled: [event, dir, sub, name, path]
    theme_out,          \* what the handler computed and asked for
    theme_pc,           \* the I/O the event's sequence waits for
    theme_steps,        \* the I/O the event's sequence started and saw end, in order
    theme_event_data,   \* eventData: [key, log_type]
    \* ---- index.js, the scripts watcher (updateScripts) and restartSocket ----
    ignoreFileEvents,   \* let ignoreFileEvents = false
    ignore_timers,      \* number of pending setTimeout callbacks armed by startDelay()
    script_input,       \* the watch event handled: [event, path, ignored, window, n],
                        \* ignored being the value of ignoreFileEvents and window the
                        \* number of pending startDelay() timers when it arrived, n
                        \* the number of events handled so far
    script_decision,    \* the function scriptEventHandler called: [call, arg]
    script_data,        \* the data object of the sequence started: [log_type, key]
    script_request,     \* the request of the event's sequence: [state, id, ...]
    websocket,          \* let websocket: "undefined", "open" or "terminated"
    reload_timers,      \* the pending setTimeout callbacks armed by restartSocket
    script_log,         \* what was logged and signalled: [log, key]
    \* ---- packaging a module group: get_all_file_paths, sortJsFiles and
    \*      minify_js("from data", output) in one run_sync sequence ----
    disk,               \* what fs.readdir returns for each directory, in its order
    manifest_text,      \* the text of the group's _script-order.js
    pkg_pc,             \* where the sequence is
    listing,            \* get_all_file_paths: dirs_to_read, tmp_dirent_array, files
    data_files,         \* data.files of the sequence
    sort_state,         \* sortJsFiles: moduleFilePaths, moduleNames, index
    ordered_contents,   \* minify_js_requestors: orderedFileContents
    file_data,          \* minify_js_requestors of the earlier revision: file_data
    dirs_read,          \* the directories whose fs.readdir has called back with its dirents
    written,            \* the file contents joined and written for jsmin
    pkg_calls,          \* the calls of the continuation given to minify_js
    \* ---- api_requests.js: the requestors of the remote asset API ----
    api_version,        \* const api_version of the revision of api_requests.js in use
    api_remote,         \* the remote theme: the keys of the assets it holds
    api_pages,          \* the remote collection: the pages a download is answered with
    api_pc,             \* position of the running requestor
    api_op,             \* the running requestor and its arguments
    api_sent,           \* the requests made, in order, with the status answered
    api_conts,          \* the calls of the continuation given to the requestors
    api_resources,      \* download_resource: const resources = []
    api_log             \* the lines written by log() and console.log()

throttle_vars == <<request_count, overflow, is_polling, is_throttling,
                   poll_timers, throttle_timers, submitted, started, failures>>

sync_vars == <<sync_tasks, sync_cb_throws, sync_pc, next_number, sync_waiting,
               sync_invoked, sync_failures, sync_done, sync_escaped>>

async_vars == <<async_n, async_cb_throws, async_pc, async_task, async_result,
                num_checked_in, async_done, async_timer, async_writes,
                async_context, async_seen>>

theme_vars == <<theme_input, theme_out, theme_pc, theme_steps, theme_event_data>>

script_vars == <<ignoreFileEvents, ignore_timers, script_input, script_decision,
                 script_data, script_request, websocket, reload_timers, script_log>>

pkg_vars == <<disk, manifest_text, pkg_pc, listing, data_files, sort_state,
              ordered_contents, file_data, dirs_read, written, pkg_calls>>

api_vars == <<api_version, api_remote, api_pages, api_pc, api_op, api_sent,
              api_conts, api_resources, api_log>>

vars == <<throttle_vars, sync_vars, async_vars, theme_vars, script_vars, pkg_vars,
          api_vars>>

----------------------------------------------------------------------------
\* Bounds of the model.

\* Number of requestor() calls explored.
MaxSubmit == 72

\* Longest requestors array given to run_sync.
MaxSyncTasks == 3

\* Longest requestors array given to run_async.
MaxAsyncTasks == 3

----------------------------------------------------------------------------
\* The state of each component before it is used.

\* api_requests.js, lines 69-91: the module's initial values.
ThrottleIdle ==
    /\ request_count = 0
    /\ overflow = <<>>
    /\ is_polling = FALSE
    /\ is_throttling = FALSE
    /\ poll_timers = 0
    /\ throttle_timers = 0
    /\ submitted = 0
    /\ started = <<>>
    /\ failures = {}

\* utils.js: no run_sync invocation has been made.
SyncIdle ==
    /\ sync_tasks = <<>>
    /\ sync_cb_throws = FALSE
    /\ sync_pc = "ready"
    /\ next_number = 0
    /\ sync_waiting = 0
    /\ sync_invoked = <<>>
    /\ sync_failures = <<>>
    /\ sync_done = <<>>
    /\ sync_escaped = FALSE

\* utils.js: no run_async invocation has been made.
AsyncIdle ==
    /\ async_n = 0
    /\ async_cb_throws = FALSE
    /\ async_pc = "ready"
    /\ async_task = <<>>
    /\ async_result = <<>>
    /\ num_checked_in = 0
    /\ async_done = <<>>
    /\ async_timer = "no_limit"
    /\ async_writes = <<>>
    /\ async_context = {}
    /\ async_seen = <<>>

\* index.js: no theme watch event has been handled.
ThemeIdle ==
    /\ theme_input = [event |-> "none"]
    /\ theme_out = [handled |-> FALSE]
    /\ theme_pc = "idle"
    /\ theme_steps = <<>>
    /\ theme_event_data = [log_type |-> "none"]

\* index.js: no scripts watch event has been handled and no sequence has
\* called restartSocket.
ScriptQuiet ==
    /\ ignoreFileEvents = FALSE
    /\ ignore_timers = 0
    /\ script_input = [event |-> "none"]
    /\ script_decision = [call |-> "none"]
    /\ script_data = [log_type |-> "none"]
    /\ script_request = [state |-> "none", id |-> 0]
    /\ reload_timers = <<>>
    /\ script_log = <<>>

\* ... and no client is connected.
ScriptIdle == ScriptQuiet /\ websocket = "undefined"

\* No module group is being packaged.
NoListing ==
    [owner |-> "none", dirs_to_read |-> <<>>, pending |-> {},
     tmp_dirent_array |-> <<>>, files |-> <<>>, called_back |-> FALSE]

PkgIdle ==
    /\ disk = <<>>
    /\ manifest_text = <<>>
    /\ pkg_pc = "idle"
    /\ listing = NoListing
    /\ data_files = <<>>
    /\ sort_state = [index |-> 0]
    /\ ordered_contents = <<>>
    /\ file_data = <<>>
    /\ dirs_read = {}
    /\ written = <<>>
    /\ pkg_calls = <<>>

\* No requestor of the remote asset API has been called.
ApiIdle ==
    /\ api_version = "2020-01"
    /\ api_remote = {}
    /\ api_pages = <<>>
    /\ api_pc = "idle"
    /\ api_op = [op |-> "none", n |-> 0]
    /\ api_sent = <<>>
    /\ api_conts = <<>>
    /\ api_resources = <<>>
    /\ api_log = <<>>

----------------------------------------------------------------------------
\* api_requests.js: constants of the throttle.

bucket_size == 40
padding == 5
bucket_limit == bucket_size - padding

----------------------------------------------------------------------------
\* api_requests.js: the throttle.  The module state is passed around as a
\* record so that the nested calls of one handler compose into one step.

ThrottleState ==
    [request_count |-> request_count, overflow |-> overflow,
     is_polling |-> is_polling, is_throttling |-> is_throttling,
     poll_timers |-> poll_timers, throttle_timers |-> throttle_timers,
     started |-> started]

\* add_request_to_bucket(): request_count += 1
add_request_to_bucket(s) == [s EXCEPT !.request_count = @ + 1]

\* remove_request_from_bucket(): request_count -= 1
remove_request_from_bucket(s) == [s EXCEPT !.request_count = @ - 1]

\* make_request() of request id: add_request_to_bucket(), then the https request
\* is issued (the id is appended to the start history).
make_request(s, id) ==
    [add_request_to_bucket(s) EXCEPT !.started = Append(@, id)]

\* poller(): arm the timer, then leak one request if the bucket is not empty.
poller(s) ==
    LET armed == [s EXCEPT !.poll_timers = @ + 1]
    IN  IF armed.request_count > 0 THEN remove_request_from_bucket(armed) ELSE armed

\* start_polling(): is_polling = true, then the first poller() call.
start_polling(s) == poller([s EXCEPT !.is_polling = TRUE])

\* A queue read from the wrong end: overflow.pop() instead of overflow.shift().
shift_pop(q) == [item |-> q[Len(q)], rest |-> SubSeq(q, 1, Len(q) - 1)]

\* A queue read that leaves the entry in the queue: overflow[0].
shift_peek(q) == [item |-> Head(q), rest |-> q]

\* overflow.shift(): the oldest queued closure and the rest of the queue.
shift(q) == [item |-> Head(q), rest |-> Tail(q)]

\* A throttler() that starts a queued request whatever the bucket holds.
throttler_may_start_always(s) == TRUE

\* The test of throttler() before it starts a queued request.
throttler_may_start(s) == s.request_count < bucket_limit

\* throttler(): arm the timer, then start the oldest queued request if the
\* bucket has room.
throttler(s) ==
    LET armed == [s EXCEPT !.throttle_timers = @ + 1]
    IN  IF throttler_may_start(armed)
        THEN LET sh == shift(armed.overflow)
             IN  make_request([armed EXCEPT !.overflow = sh.rest], sh.item)
        ELSE armed

\* A drain cycle started without raising its flag.
start_throttling_unflagged(s) == throttler(s)

\* start_throttling(): is_throttling = true, then the first throttler() call.
start_throttling(s) == throttler([s EXCEPT !.is_throttling = TRUE])

\* The test of requestor() without its overflow.length comparison.
bucket_not_full_no_overflow(s) == s.request_count < bucket_limit

\* The test of requestor() without its request_count comparison.
bucket_not_full_no_count(s) == Len(s.overflow) = 0

\* The test of requestor(): "bucket is not full".
bucket_not_full(s) == Len(s.overflow) = 0 /\ s.request_count < bucket_limit

\* requestor(cb, data) for request id.
requestor(s, id) ==
    IF bucket_not_full(s)
    THEN make_request(IF ~s.is_polling THEN start_polling(s) ELSE s, id)
    ELSE LET pushed == [s EXCEPT !.overflow = Append(@, id)]
         IN  IF ~pushed.is_throttling THEN start_throttling(pushed) ELSE pushed

\* The callback of poller()'s setTimeout.
poller_timeout(s) ==
    LET fired == [s EXCEPT !.poll_timers = @ - 1]
    IN  IF fired.request_count > 0
        THEN poller(fired)
        ELSE [fired EXCEPT !.is_polling = FALSE]

\* The callback of throttler()'s setTimeout.
throttler_timeout(s) ==
    LET fired == [s EXCEPT !.throttle_timers = @ - 1]
    IN  IF Len(fired.overflow) > 0
        THEN throttler(fired)
        ELSE [fired EXCEPT !.is_throttling = FALSE]

SetThrottle(s) ==
    /\ request_count' = s.request_count
    /\ overflow' = s.overflow
    /\ is_polling' = s.is_polling
    /\ is_throttling' = s.is_throttling
    /\ poll_timers' = s.poll_timers
    /\ throttle_timers' = s.throttle_timers
    /\ started' = s.started
    /\ failures' = failures

\* A caller invokes a requestor returned by make_requestor.
Submit ==
    /\ submitted < MaxSubmit
    /\ submitted' = submitted + 1
    /\ SetThrottle(requestor(ThrottleState, submitted + 1))
    /\ UNCHANGED <<sync_vars, async_vars, theme_vars, pkg_vars, api_vars, script_vars>>

\* A leak tick: the poll timer fires.
PollTick ==
    /\ poll_timers > 0
    /\ SetThrottle(poller_timeout(ThrottleState))
    /\ UNCHANGED <<submitted, sync_vars, async_vars, theme_vars, pkg_vars, api_vars, script_vars>>

\* A drain tick: the throttle timer fires.
ThrottleTick ==
    /\ throttle_timers > 0
    /\ SetThrottle(throttler_timeout(ThrottleState))
    /\ UNCHANGED <<submitted, sync_vars, async_vars, theme_vars, pkg_vars, api_vars, script_vars>>

\* The requests whose outcome is observed: the first one started at
\* submission and the first one that waits in the queue of a burst.
ObservedIds == {1, bucket_limit + 1}

\* The request id ends in a failure: its response has a non-2xx status or its
\* "error" event fires.  The handlers log, and on "end" call cb; none of them
\* touches the module state of the throttle.
RequestFails(id) ==
    /\ \E i \in 1..Len(started) : started[i] = id
    /\ id \notin failures
    /\ failures' = failures \cup {id}
    /\ UNCHANGED <<request_count, overflow, is_polling, is_throttling,
                   poll_timers, throttle_timers, submitted, started>>
    /\ UNCHANGED <<sync_vars, async_vars, theme_vars, pkg_vars, api_vars, script_vars>>

ThrottleInit ==
    ThrottleIdle /\ SyncIdle /\ AsyncIdle /\ ThemeIdle /\ ScriptIdle /\ PkgIdle
    /\ ApiIdle

ThrottleNext ==
    \/ Submit
    \/ PollTick
    \/ ThrottleTick
    \/ \E id \in ObservedIds : RequestFails(id)

ThrottleSpec == ThrottleInit /\ [][ThrottleNext]_vars

\* The timers of the event loop fire once armed.
ThrottleFairSpec ==
    ThrottleSpec /\ WF_vars(PollTick) /\ WF_vars(ThrottleTick)

----------------------------------------------------------------------------
\* utils.js: run_sync.
\*
\* A value handed from requestor to requestor is either the failure sentinel
\* null or a context; a context is modelled by the list of requestors that
\* wrote to it.  A reason is the list <<k>> of the requestor k that failed,
\* extended by each requestor whose catch block reported it again.

Null == [is_null |-> TRUE, writes |-> <<>>]
Context(w) == [is_null |-> FALSE, writes |-> w]
NoReason == <<>>

\* The requestors handed to run_sync in this repository are of two shapes.
\*   "sync":  try { ...; return cb(data); } catch (e) { return cb(null, e); }
\*            (index.js initLocalServer, createWebsocket; fs_operations.js
\*            start_watchers; create_data_objects.js init_data_requestor)
\*   "async": try { io(..., function (err, r) { if (err) return cb(null, err);
\*            return cb(data); }); } catch (e) { return cb(null, e); }
\*            (fs_operations.js read_file, minify_js, unlink_file, ...)
\* ok says whether the requestor's own work succeeds.
SyncTaskKinds == [kind : {"sync", "async"}, ok : BOOLEAN]

\* The state of one run_sync invocation while its code runs; threw says
\* that an exception is propagating up the call stack.
SyncState ==
    [tasks |-> sync_tasks, cb_throws |-> sync_cb_throws,
     next_number |-> next_number, waiting |-> sync_waiting,
     invoked |-> sync_invoked, failures |-> sync_failures,
     done |-> sync_done, threw |-> FALSE, thrown |-> NoReason]

\* cb(value, reason): the cb given to run_sync.  The cb of index.js start
\* (and of Deploy, server_request_handler) does "if (data === null) throw reason".
call_cb(r, value, reason) ==
    LET called == [r EXCEPT !.done = Append(@, [value |-> value, reason |-> reason])]
    IN  IF value.is_null /\ r.cb_throws
        THEN [called EXCEPT !.threw = TRUE, !.thrown = reason]
        ELSE called

\* A start_requestor that never takes a value for the failure sentinel.
is_failure_never(value) == FALSE

\* value === null
is_failure(value) == value.is_null

\* A requestor reports failure: cb(null, reason).
signal_failure(r, k, reason) ==
    [r EXCEPT !.failures =
        Append(@, [task |-> k, reason |-> reason, invoked |-> Len(r.invoked)])]

RECURSIVE start_requestor(_, _, _)
RECURSIVE call_requestor(_, _, _)

\* A start_requestor that hands every requestor the initial value.
start_requestor_initial_value(r, value, reason) ==
    IF is_failure(value)
    THEN call_cb(r, Null, reason)
    ELSE IF r.next_number < Len(r.tasks)
         THEN LET number == r.next_number
              IN  call_requestor([r EXCEPT !.next_number = @ + 1], number + 1,
                                 Context(<<>>))
         ELSE call_cb(r, value, NoReason)

\* function start_requestor(value, reason)
start_requestor(r, value, reason) ==
    IF is_failure(value)
    THEN call_cb(r, Null, reason)
    ELSE IF r.next_number < Len(r.tasks)
         THEN LET number == r.next_number
              IN  call_requestor([r EXCEPT !.next_number = @ + 1], number + 1, value)
         ELSE call_cb(r, value, NoReason)

\* requestor(function (value, reason) { return start_requestor(value, reason); }, value)
\* for requestor k (1-based) of the requestors array.
call_requestor(r, k, value) ==
    LET entered == [r EXCEPT !.invoked = Append(@, [task |-> k, value |-> value])]
        task == r.tasks[k]
    IN  IF task.kind = "async"
        THEN \* the I/O is started; its callback runs in a later turn
             [entered EXCEPT !.waiting = k]
        ELSE IF ~task.ok
             THEN \* the work throws inside try: catch (e) { return cb(null, e) }
                  start_requestor(signal_failure(entered, k, <<k>>), Null, <<k>>)
             ELSE \* return cb(data) inside try
                  LET inner == start_requestor(entered,
                                               Context(Append(value.writes, k)),
                                               NoReason)
                  IN  IF inner.threw
                      THEN \* catch (exception) { return cb(null, exception) }
                           LET again == Append(inner.thrown, k)
                               caught == [inner EXCEPT !.threw = FALSE,
                                                       !.thrown = NoReason]
                           IN  start_requestor(signal_failure(caught, k, again),
                                               Null, again)
                      ELSE inner

\* The callback of the I/O of "async" requestor k: cb(null, err) or cb(data),
\* called from the event loop (no try block of the requestor is on the stack).
async_callback(r, k, ok, value) ==
    LET back == [r EXCEPT !.waiting = 0]
    IN  IF ~ok
        THEN start_requestor(signal_failure(back, k, <<k>>), Null, <<k>>)
        ELSE start_requestor(back, Context(Append(value.writes, k)), NoReason)

\* const run_sync = function (requestors, cb, initial_value)
run_sync(r, initial_value) == start_requestor(r, initial_value, NoReason)

SetSync(r, uncaught) ==
    /\ sync_tasks' = r.tasks
    /\ sync_cb_throws' = r.cb_throws
    /\ next_number' = r.next_number
    /\ sync_waiting' = r.waiting
    /\ sync_invoked' = r.invoked
    /\ sync_failures' = r.failures
    /\ sync_done' = r.done
    /\ sync_pc' = IF r.threw /\ uncaught THEN "uncaught"
                  ELSE IF r.waiting # 0 THEN "running" ELSE "done"
    /\ sync_escaped' = (sync_escaped \/ (r.threw /\ ~uncaught))

SeqsUpTo(S, n) == UNION {[1..m -> S] : m \in 0..n}

SyncInit ==
    /\ sync_tasks \in SeqsUpTo(SyncTaskKinds, MaxSyncTasks)
    /\ sync_cb_throws \in BOOLEAN
    /\ sync_pc = "ready"
    /\ next_number = 0
    /\ sync_waiting = 0
    /\ sync_invoked = <<>>
    /\ sync_failures = <<>>
    /\ sync_done = <<>>
    /\ sync_escaped = FALSE
    /\ ThrottleIdle
    /\ AsyncIdle
    /\ ThemeIdle
    /\ ScriptIdle
    /\ PkgIdle
    /\ ApiIdle

\* run_sync(requestors, cb, initial_value) is called with a context.
RunSync ==
    /\ sync_pc = "ready"
    /\ SetSync(run_sync(SyncState, Context(<<>>)), FALSE)
    /\ UNCHANGED <<throttle_vars, async_vars, theme_vars, pkg_vars, api_vars, script_vars>>

\* The I/O of the requestor in flight completes and its callback runs.
SyncTaskCallback ==
    /\ sync_pc = "running"
    /\ sync_waiting # 0
    /\ SetSync(async_callback(SyncState, sync_waiting, sync_tasks[sync_waiting].ok,
                              sync_invoked[Len(sync_invoked)].value), TRUE)
    /\ UNCHANGED <<throttle_vars, async_vars, theme_vars, pkg_vars, api_vars, script_vars>>

SyncNext == RunSync \/ SyncTaskCallback

SyncSpec == SyncInit /\ [][SyncNext]_vars

----------------------------------------------------------------------------
\* utils.js: run_async.

AsyncState ==
    [num_checked_in |-> num_checked_in, done |-> async_done, threw |-> FALSE,
     timer |-> async_timer]

\* cb(null, reason) / cb(): the cb given to run_async.  The cb of upload_files
\* and of minify_js_requestors does "if (data === null) throw reason".
async_call_cb(r, failed, reason) ==
    LET called == [r EXCEPT !.done = Append(@, [failed |-> failed, reason |-> reason])]
    IN  IF failed /\ async_cb_throws THEN [called EXCEPT !.threw = TRUE] ELSE called

\* function check_in(data, reason), called by requestor i; ok is data !== null.
\* After the time limit requestors is undefined, and requestors.length throws
\* a TypeError.
check_in(r, i, ok) ==
    LET counted == [r EXCEPT !.num_checked_in = @ + 1]
    IN  IF ~ok
        THEN async_call_cb(counted, TRUE, <<i>>)
        ELSE IF r.timer = "fired"
             THEN [counted EXCEPT !.threw = TRUE]
             ELSE IF counted.num_checked_in = async_n
                  THEN async_call_cb([counted EXCEPT !.timer =
                                         IF @ = "pending" THEN "cleared" ELSE @],
                                     FALSE, NoReason)
                  ELSE counted

\* requestor i gave check_in its result; an exception thrown by cb reaches
\* the event loop.
SetAsync(r, i, ok) ==
    /\ num_checked_in' = r.num_checked_in
    /\ async_done' = r.done
    /\ async_task' = [async_task EXCEPT ![i] = "checked_in"]
    /\ async_result' = [async_result EXCEPT ![i] = IF ok THEN "ok" ELSE "fail"]
    /\ async_pc' = IF r.threw THEN "uncaught" ELSE async_pc
    /\ async_timer' = r.timer

AsyncInit ==
    /\ async_n \in 0..MaxAsyncTasks
    /\ async_cb_throws \in BOOLEAN
    /\ async_pc = "ready"
    /\ async_task = [i \in 1..async_n |-> "scheduled"]
    /\ async_result = [i \in 1..async_n |-> "none"]
    /\ num_checked_in = 0
    /\ async_done = <<>>
    /\ async_timer \in {"no_limit", "limit"}
    /\ async_writes \in [1..async_n -> BOOLEAN]
    /\ async_context = {}
    /\ async_seen = [i \in 1..async_n |-> {}]
    /\ ThrottleIdle
    /\ SyncIdle
    /\ ThemeIdle
    /\ ScriptIdle
    /\ PkgIdle
    /\ ApiIdle

\* run_async(requestors, cb, initial_value, time_limit): the timer of the
\* time limit is set if one was given, every requestor is scheduled with
\* setTimeout(requestor, 0, check_in, initial_value); num_checked_in = 0.
RunAsync ==
    /\ async_pc = "ready"
    /\ async_pc' = "running"
    /\ async_timer' = IF async_timer = "limit" THEN "pending" ELSE async_timer
    /\ UNCHANGED <<async_n, async_cb_throws, async_task, async_result,
                   num_checked_in, async_done, async_writes, async_context,
                   async_seen, throttle_vars, sync_vars,
                   theme_vars, pkg_vars, api_vars, script_vars>>

\* The timer of the time limit fires: requestors = undefined, and a line is
\* logged.
AsyncTimeLimit ==
    /\ async_pc = "running"
    /\ async_timer = "pending"
    /\ async_timer' = "fired"
    /\ UNCHANGED <<async_n, async_cb_throws, async_pc, async_task, async_result,
                   num_checked_in, async_done, async_writes, async_context,
                   async_seen, throttle_vars, sync_vars,
                   theme_vars, pkg_vars, api_vars, script_vars>>

\* The timer of requestor i fires (timers of equal delay fire in the order
\* they were set): the requestor is called with check_in and initial_value,
\* the object itself as it is by then; it reads it, writes to it if it is one
\* that does, and then starts its I/O, or fails before it could (its catch
\* block calls check_in(null, exception)).
AsyncTaskStart(i) ==
    /\ async_pc = "running"
    /\ async_task[i] = "scheduled"
    /\ \A j \in 1..(i - 1) : async_task[j] # "scheduled"
    /\ async_seen' = [async_seen EXCEPT ![i] = async_context]
    /\ async_context' = IF async_writes[i] THEN async_context \cup {i} ELSE async_context
    /\ \/ /\ async_task' = [async_task EXCEPT ![i] = "running"]
          /\ UNCHANGED <<async_pc, async_result, num_checked_in, async_done,
                         async_timer>>
       \/ SetAsync(check_in(AsyncState, i, FALSE), i, FALSE)
    /\ UNCHANGED <<async_n, async_cb_throws, async_writes, throttle_vars, sync_vars, theme_vars, pkg_vars, api_vars,
                   script_vars>>

\* The I/O of requestor i completes: its callback calls check_in(data) or
\* check_in(null, err).
AsyncTaskCallback(i, ok) ==
    /\ async_pc = "running"
    /\ async_task[i] = "running"
    /\ SetAsync(check_in(AsyncState, i, ok), i, ok)
    /\ UNCHANGED <<async_n, async_cb_throws, async_writes, async_context,
                   async_seen, throttle_vars, sync_vars, theme_vars, pkg_vars, api_vars,
                   script_vars>>

AsyncNext ==
    \/ RunAsync
    \/ AsyncTimeLimit
    \/ \E i \in 1..async_n : AsyncTaskStart(i)
    \/ \E i \in 1..async_n, ok \in BOOLEAN : AsyncTaskCallback(i, ok)

AsyncSpec == AsyncInit /\ [][AsyncNext]_vars

----------------------------------------------------------------------------
\* Strings.  A JavaScript string is modelled by the sequence of its
\* characters, so that includes(), split() and Path.parse() are computed.

\* s.includes(sub)
Includes(s, sub) ==
    \E i \in 1..(Len(s) - Len(sub) + 1) : SubSeq(s, i, i + Len(sub) - 1) = sub

\* s.lastIndexOf(c) for a character c, counted from 1; 0 when absent.
LastIndexOf(s, c) ==
    IF \E i \in 1..Len(s) : s[i] = c
    THEN CHOOSE i \in 1..Len(s) : s[i] = c /\ \A j \in (i + 1)..Len(s) : s[j] # c
    ELSE 0

\* s.indexOf(c) for a character c, counted from 1; 0 when absent.
FirstIndexOf(s, c) ==
    IF \E i \in 1..Len(s) : s[i] = c
    THEN CHOOSE i \in 1..Len(s) : s[i] = c /\ \A j \in 1..(i - 1) : s[j] # c
    ELSE 0

RECURSIVE Split(_, _)
\* s.split(c) for a one-character separator c.
Split(s, c) ==
    LET i == FirstIndexOf(s, c)
    IN  IF i = 0 THEN <<s>>
        ELSE <<SubSeq(s, 1, i - 1)>> \o Split(SubSeq(s, i + 1, Len(s)), c)

RECURSIVE Join(_, _)
\* parts.join(sep)
Join(parts, sep) ==
    IF Len(parts) = 0 THEN <<>>
    ELSE IF Len(parts) = 1 THEN parts[1]
    ELSE parts[1] \o sep \o Join(Tail(parts), sep)

\* array.includes(x)
ArrayIncludes(array, x) == \E i \in 1..Len(array) : array[i] = x

\* array.indexOf(x), counted from 1; 0 when absent (JavaScript's -1).
ArrayIndexOf(array, x) ==
    IF ArrayIncludes(array, x)
    THEN CHOOSE i \in 1..Len(array) : array[i] = x /\ \A j \in 1..(i - 1) : array[j] # x
    ELSE 0

\* Path.sep on the platforms the watcher's paths are split on.
PathSep == <<"/">>

\* Path.join(...parts) of already normalised parts.
PathJoin(parts) == Join(parts, PathSep)

\* Path.parse(p): dir is what precedes the last separator, base what follows
\* it, ext the part of base from its last "." (none when base has no "." or
\* only a leading one), name is base without ext.
PathParse(p) ==
    LET i == LastIndexOf(p, "/")
        base == SubSeq(p, i + 1, Len(p))
        dir == IF i = 0 THEN <<>> ELSE IF i = 1 THEN PathSep ELSE SubSeq(p, 1, i - 1)
        j == LastIndexOf(base, ".")
        ext == IF j <= 1 THEN <<>> ELSE SubSeq(base, j, Len(base))
    IN  [dir |-> dir, base |-> base, ext |-> ext,
         name |-> SubSeq(base, 1, Len(base) - Len(ext))]

----------------------------------------------------------------------------
\* index.js: the theme watcher.

\* const non_string_formats = [...]
non_string_formats ==
    <<<<".", "w", "o", "f", "f">>, <<".", "w", "o", "f", "f", "2">>, <<".", "p", "n", "g">>, <<".", "j", "p", "g">>, <<".", "e", "o", "t">>, <<".", "t", "t", "f">>, <<".", "t", "t", "c">>,
      <<".", "g", "i", "f">>, <<".", "o", "t", "f">>>>

\* A theme_dirs array that lost its "layout" entry.
theme_dirs_without_layout ==
    <<<<"c", "o", "n", "f", "i", "g">>, <<"s", "n", "i", "p", "p", "e", "t", "s">>, <<"s", "e", "c", "t", "i", "o", "n", "s">>, <<"t", "e", "m", "p", "l", "a", "t", "e", "s", "/", "c", "u", "s", "t", "o", "m", "e", "r", "s">>,
      <<"t", "e", "m", "p", "l", "a", "t", "e", "s">>, <<"l", "o", "c", "a", "l", "e", "s">>, <<"a", "s", "s", "e", "t", "s">>>>

\* const theme_dirs = [...]
theme_dirs ==
    <<<<"c", "o", "n", "f", "i", "g">>, <<"s", "n", "i", "p", "p", "e", "t", "s">>, <<"s", "e", "c", "t", "i", "o", "n", "s">>, <<"t", "e", "m", "p", "l", "a", "t", "e", "s", "/", "c", "u", "s", "t", "o", "m", "e", "r", "s">>,
      <<"t", "e", "m", "p", "l", "a", "t", "e", "s">>, <<"l", "a", "y", "o", "u", "t">>, <<"l", "o", "c", "a", "l", "e", "s">>, <<"a", "s", "s", "e", "t", "s">>>>

\* paths.base, paths.theme and paths.local_data of a project at /p with the
\* package installed in node_modules.
paths_base == <<"/", "p">>
paths_theme == PathJoin(<<paths_base, <<"t", "h", "e", "m", "e">>>>)
paths_local_data == <<"/", "p", "/", "n", "o", "d", "e", "_", "m", "o", "d", "u", "l", "e", "s", "/", "s", "h", "o", "p", "i", "f", "y", "_", "d", "e", "v", "_", "u", "t", "i", "l", "s", "/", "l", "o", "c", "a", "l", "-", "d", "a", "t", "a">>

\* The test without its last condition: unlink events are ignored too.
is_ignored_min_asset_any_event(event, file_dir, file_name) ==
    /\ file_dir = <<"a", "s", "s", "e", "t", "s">>
    /\ Includes(file_name, <<".", "m", "i", "n", ".">>)
    /\ ~Includes(file_name, <<"-", "t", "r", ".", "m", "i", "n">>)

\* The test that makes theme_event_handler return at once: a minified file of
\* theme/assets that is not being unlinked.
is_ignored_min_asset(event, file_dir, file_name) ==
    /\ file_dir = <<"a", "s", "s", "e", "t", "s">>
    /\ Includes(file_name, <<".", "m", "i", "n", ".">>)
    /\ ~Includes(file_name, <<"-", "t", "r", ".", "m", "i", "n">>)
    /\ event # "unlink"

\* "Compute the following variables' values": write_path and curr_path.
resolve_write_path(file_path) ==
    LET path_parsed == PathParse(file_path)
        file_name == path_parsed.base
        dir_path_parts == Split(path_parsed.dir, "/")
        file_dir == dir_path_parts[Len(dir_path_parts)]
    IN  IF ArrayIncludes(theme_dirs, file_dir)
        THEN [write_path |-> file_dir \o <<"/">> \o file_name,
              curr_path |-> file_path]
        ELSE LET theme_sub_dir == file_dir
                 theme_dir == dir_path_parts[Len(dir_path_parts) - 1]
             IN  IF theme_sub_dir = <<"c", "u", "s", "t", "o", "m", "e", "r", "s">> /\ theme_dir = <<"t", "e", "m", "p", "l", "a", "t", "e", "s">>
                 THEN [write_path |-> <<"t", "e", "m", "p", "l", "a", "t", "e", "s", "/", "c", "u", "s", "t", "o", "m", "e", "r", "s", "/">> \o path_parsed.base,
                       curr_path |->
                           PathJoin(<<paths_theme,
                                      <<"t", "e", "m", "p", "l", "a", "t", "e", "s", "/", "c", "u", "s", "t", "o", "m", "e", "r", "s", "/">> \o path_parsed.base>>)]
                 ELSE [write_path |-> theme_dir \o <<"/">> \o path_parsed.base,
                       curr_path |->
                           PathJoin(<<paths_theme, theme_dir, theme_sub_dir,
                                      path_parsed.base>>)]

\* The minified copy written over the authored file.
inline_script_curr_path_in_place(file_path, file_name) == file_path

\* curr_path = Path.join(paths.local_data, file_name), for a file of
\* snippets/inline-scripts: where minify_js writes and upload_file reads.
inline_script_curr_path(file_path, file_name) ==
    PathJoin(<<paths_local_data, file_name>>)

\* function theme_event_handler(event, file_path), up to the first I/O it
\* starts: op is "none" (nothing is started), "upload" (upload_file of
\* curr_path under key), "delete" (delete_file of key) or "minify" (minify_js
\* of file_path into curr_path, update_file(true) follows).
theme_event_handler(event, file_path) ==
    LET path_parsed == PathParse(file_path)
        file_name == path_parsed.base
        dir_path_parts == Split(path_parsed.dir, "/")
        file_dir == dir_path_parts[Len(dir_path_parts)]
        resolved == resolve_write_path(file_path)
        log_type == IF event = "unlink" THEN "Deleted" ELSE "Uploaded"
        is_binary == ArrayIncludes(non_string_formats, path_parsed.ext)
        update_op == IF event \in {"add", "change"} THEN "upload"
                     ELSE IF event = "unlink" THEN "delete" ELSE "none"
    IN  IF is_ignored_min_asset(event, file_dir, file_name)
        THEN [handled |-> TRUE, returned_early |-> TRUE, op |-> "none"]
        ELSE IF Includes(file_path, PathJoin(<<<<"s", "n", "i", "p", "p", "e", "t", "s">>, <<"i", "n", "l", "i", "n", "e", "-", "s", "c", "r", "i", "p", "t", "s">>>>))
        THEN [handled |-> TRUE, returned_early |-> FALSE, op |-> "minify",
              key |-> <<"s", "n", "i", "p", "p", "e", "t", "s", "/">> \o file_name,
              curr_path |-> inline_script_curr_path(file_path, file_name),
              event_key |-> resolved.write_path, log_type |-> log_type,
              is_binary |-> is_binary, then |-> update_op]
        ELSE [handled |-> TRUE, returned_early |-> FALSE, op |-> update_op,
              key |-> resolved.write_path, curr_path |-> resolved.curr_path,
              event_key |-> resolved.write_path, log_type |-> log_type,
              is_binary |-> is_binary, then |-> "none"]

\* The events chokidar's "all" listener is called with.
WatchEvents == {"add", "change", "unlink", "addDir", "unlinkDir"}

\* The directories of theme/ (README, "Theme").
ThemeTopDirs ==
    {<<"c", "o", "n", "f", "i", "g">>, <<"s", "n", "i", "p", "p", "e", "t", "s">>, <<"s", "e", "c", "t", "i", "o", "n", "s">>, <<"t", "e", "m", "p", "l", "a", "t", "e", "s">>, <<"l", "a", "y", "o", "u", "t">>,
     <<"l", "o", "c", "a", "l", "e", "s">>, <<"a", "s", "s", "e", "t", "s">>}

\* Names of one-level subdirectories tried; <<>> is "directly in the directory".
ThemeSubDirs ==
    {<<>>, <<"c", "u", "s", "t", "o", "m", "e", "r", "s">>, <<"p", "r", "o", "m", "o">>, <<"i", "n", "l", "i", "n", "e", "-", "s", "c", "r", "i", "p", "t", "s">>, <<"l", "a", "y", "o", "u", "t">>, <<"a", "s", "s", "e", "t", "s">>}

\* File names tried.
ThemeFileNames ==
    {<<"f", "o", "o", ".", "l", "i", "q", "u", "i", "d">>, <<"m", "a", "i", "n", ".", "m", "i", "n", ".", "j", "s">>, <<"a", "p", "p", "-", "t", "r", ".", "m", "i", "n", ".", "j", "s">>, <<"l", "o", "g", "o", ".", "p", "n", "g">>,
     <<"i", "n", "l", "i", "n", "e", "-", "s", "c", "r", "i", "p", "t", "s", ".", "l", "i", "q", "u", "i", "d">>}

\* The local path of file name in theme/<dir>[/<sub>].
ThemeFilePath(dir, sub, name) ==
    IF sub = <<>> THEN PathJoin(<<paths_theme, dir, name>>)
    ELSE PathJoin(<<paths_theme, dir, sub, name>>)

----------------------------------------------------------------------------
\* index.js: the scripts watcher and the sequences it starts.

paths_scripts == PathJoin(<<paths_base, <<"s", "c", "r", "i", "p", "t", "s">>>>)

\* function getPathToScriptModuleGroup(filePath)
getPathToScriptModuleGroup(filePath) ==
    LET parsedFileDirPath == PathParse(filePath).dir
        pathParts == Split(parsedFileDirPath, "/")
        end == ArrayIndexOf(pathParts, <<"s", "c", "r", "i", "p", "t", "s">>) + 1
    IN  Join(SubSeq(pathParts, 1, IF end < Len(pathParts) THEN end ELSE Len(pathParts)),
             PathSep)

\* event.includes("Dir"), over the events of the watcher.
isDirectoryEvent(event) == event \in {"addDir", "unlinkDir"}

\* The test after which scriptEventHandler returns without doing anything:
\* ignoreFileEvents && event === "add" || event === "unlink"
script_event_is_dropped(ignore, event) ==
    (ignore /\ event = "add") \/ event = "unlink"

\* scriptEventHandler(event, filePath) after startDelay(): the function it
\* calls (each is given restartSocket as cb) and the path it is called with.
scriptEventHandler(ignore, event, filePath) ==
    LET parentDirName == PathParse(PathParse(filePath).dir).name
        moduleGroupPath == getPathToScriptModuleGroup(filePath)
        moduleIsFile == parentDirName = <<"s", "c", "r", "i", "p", "t", "s">> \/ parentDirName = <<"t", "e", "m", "p", "l", "a", "t", "e", "s">>
    IN  IF script_event_is_dropped(ignore, event)
        THEN [call |-> "none"]
        ELSE IF isDirectoryEvent(event)
        THEN IF event # "addDir" /\ parentDirName = <<"s", "c", "r", "i", "p", "t", "s">>
             THEN [call |-> "deleteGrouplessJsModule", arg |-> filePath]
             ELSE [call |-> "packageJsModuleGroup", arg |-> moduleGroupPath]
        ELSE IF event = "unlink" /\ moduleIsFile
        THEN [call |-> "deleteGrouplessJsModule", arg |-> filePath]
        ELSE IF event \in {"change", "add", "unlink"}
        THEN IF moduleIsFile
             THEN [call |-> "packageJsModule", arg |-> filePath]
             ELSE [call |-> "packageJsModuleGroup", arg |-> moduleGroupPath]
        ELSE [call |-> "none"]

\* key: `assets/${Path.parse(modulePath).name}.min.js`
module_key(modulePath) == <<"a", "s", "s", "e", "t", "s", "/">> \o PathParse(modulePath).name \o <<".", "m", "i", "n", ".", "j", "s">>

\* The requestors handed to run_sync; they do I/O before they call their
\* continuation.  upload_file(path, key) leaves is_binary at false.
Requestor(op, args) == [kind |-> "async", ok |-> TRUE, op |-> op] @@ args

\* The requestors of packageJsModule with the upload put before the minify.
packageJsModule_upload_first(modulePath) ==
    LET key == module_key(modulePath)
        outputPath == PathJoin(<<paths_theme, key>>)
    IN  <<Requestor("upload_file", [path |-> outputPath, key |-> key,
                                    is_binary |-> FALSE]),
          Requestor("minify_js", [input |-> modulePath, output |-> outputPath])>>

\* function packageJsModule(modulePath, cb): the requestors given to run_sync
packageJsModule(modulePath) ==
    LET key == module_key(modulePath)
        outputPath == PathJoin(<<paths_theme, key>>)
    IN  <<Requestor("minify_js", [input |-> modulePath, output |-> outputPath]),
          Requestor("upload_file", [path |-> outputPath, key |-> key,
                                    is_binary |-> FALSE])>>

\* function packageJsModuleGroup(moduleGroupPath, cb): the requestors given
\* to run_sync.  sortJsFiles reads the _script-order file when the group has
\* one, and calls cb(data) at once when it has none.
packageJsModuleGroup(moduleGroupPath, has_manifest) ==
    LET key == module_key(moduleGroupPath)
        outputPath == PathJoin(<<paths_theme, key>>)
    IN  <<Requestor("get_all_file_paths", [dir |-> moduleGroupPath]),
          [kind |-> IF has_manifest THEN "async" ELSE "sync", ok |-> TRUE,
           op |-> "sortJsFiles", dir |-> moduleGroupPath],
          Requestor("minify_js", [input |-> <<"f", "r", "o", "m", " ", "d", "a", "t", "a">>, output |-> outputPath]),
          Requestor("upload_file", [path |-> outputPath, key |-> key,
                                    is_binary |-> FALSE])>>

\* function deleteGrouplessJsModule(modulePath, cb): the requestors given to run_sync
deleteGrouplessJsModule(modulePath) ==
    LET key == module_key(modulePath)
        outputPath == PathJoin(<<paths_theme, key>>)
    IN  <<Requestor("delete_file", [key |-> key]),
          Requestor("unlink_file", [path |-> outputPath])>>

\* The requestors and the data object of the sequence a decision starts.
script_sequence(decision, has_manifest) ==
    IF decision.call = "packageJsModule"
    THEN [tasks |-> packageJsModule(decision.arg),
          data |-> [log_type |-> "Uploaded", key |-> module_key(decision.arg)]]
    ELSE IF decision.call = "packageJsModuleGroup"
    THEN [tasks |-> packageJsModuleGroup(decision.arg, has_manifest),
          data |-> [log_type |-> "Uploaded", key |-> module_key(decision.arg)]]
    ELSE [tasks |-> deleteGrouplessJsModule(decision.arg),
          data |-> [log_type |-> "Deleted", key |-> module_key(decision.arg)]]

\* function restartSocket(data, reason), for each call of cb that run_sync
\* made in this step: a failure is logged; otherwise "Uploading" is logged
\* and the timer that logs data.log_type and ends the client connection is set.
restartSocket_calls(r) == SubSeq(r.done, Len(sync_done) + 1, Len(r.done))

SetRestartSocket(r, data) ==
    LET calls == restartSocket_calls(r)
        failed == SelectSeq(calls, LAMBDA c : c.value.is_null)
        passed == SelectSeq(calls, LAMBDA c : ~c.value.is_null)
    IN  /\ script_log' = script_log
               \o [i \in 1..Len(failed) |-> [log |-> "Error", key |-> data.key]]
               \o [i \in 1..Len(passed) |-> [log |-> "Uploading", key |-> data.key]]
        /\ reload_timers' = reload_timers \o [i \in 1..Len(passed) |-> data]

\* Watched paths tried: standalone modules scripts/<name>.js, files of the
\* groups scripts/<group>/, and the group directories themselves.
ScriptFilePaths ==
    {PathJoin(<<paths_scripts, f>>) :
        f \in {<<"c", "h", "e", "c", "k", "o", "u", "t", ".", "j", "s">>, <<"c", "a", "r", "t", ".", "v", "2", ".", "j", "s">>,
               <<"w", "i", "d", "g", "e", "t", "s", "/", "a", ".", "j", "s">>, <<"w", "i", "d", "g", "e", "t", "s", "/", "b", ".", "j", "s">>,
               <<"w", "i", "d", "g", "e", "t", "s", "/", "s", "u", "b", "/", "c", ".", "j", "s">>, <<"g", "a", "l", "l", "e", "r", "y", "/", "a", ".", "j", "s">>, <<"t", "e", "m", "p", "l", "a", "t", "e", "s", "/", "a", ".", "j", "s">>}}

ScriptDirPaths ==
    {PathJoin(<<paths_scripts, d>>) : d \in {<<"w", "i", "d", "g", "e", "t", "s">>, <<"t", "e", "m", "p", "l", "a", "t", "e", "s">>}}

ScriptInputs ==
    ({"add", "change", "unlink"} \X ScriptFilePaths)
        \cup ({"addDir", "unlinkDir"} \X ScriptDirPaths)

\* The throttle after bucket_limit requests were started at once: the bucket
\* is full and the leak cycle runs.
ThrottleFull ==
    /\ request_count = bucket_limit
    /\ overflow = <<>>
    /\ is_polling = TRUE
    /\ is_throttling = FALSE
    /\ poll_timers = 1
    /\ throttle_timers = 0
    /\ submitted = bucket_limit
    /\ started = [i \in 1..bucket_limit |-> i]
    /\ failures = {}

\* The watcher runs; a directory event may have happened less than a second
\* ago, a browser may be connected, and the bucket is empty or full.
ScriptInit ==
    /\ ignoreFileEvents \in BOOLEAN
    /\ ignore_timers = IF ignoreFileEvents THEN 1 ELSE 0
    /\ script_input = [event |-> "none"]
    /\ script_decision = [call |-> "none"]
    /\ script_data = [log_type |-> "none"]
    /\ script_request = [state |-> "none", id |-> 0]
    /\ websocket \in {"undefined", "open"}
    /\ reload_timers = <<>>
    /\ script_log = <<>>
    /\ ThrottleIdle \/ ThrottleFull
    /\ SyncIdle
    /\ AsyncIdle
    /\ ThemeIdle
    /\ PkgIdle
    /\ ApiIdle

\* requestor(cb, data) of make_requestor(method, "Asset", ...) for the
\* sequence's request: it is started or queued by the throttle.
SubmitScriptRequest(method, key, value_type) ==
    /\ submitted' = submitted + 1
    /\ SetThrottle(requestor(ThrottleState, submitted + 1))
    /\ script_request' = [state |-> "sent", id |-> submitted + 1, method |-> method,
                          key |-> key, value_type |-> value_type]

\* The scripts watcher reports event for filePath, its n-th event;
\* scriptEventHandler runs, and with it the start of the sequence it hands to
\* run_sync (a new invocation of run_sync, with its own next_number).
\* The first requestor of every sequence does I/O before it calls its
\* continuation, so restartSocket is not called in this turn; delete_file
\* calls the requestor of make_requestor in the same turn.
HandleScriptEvent(event, filePath, has_manifest, n) ==
    LET delayed == isDirectoryEvent(event)
        ignore == IF delayed THEN TRUE ELSE ignoreFileEvents
        decision == scriptEventHandler(ignore, event, filePath)
        seq == script_sequence(decision, has_manifest)
        fresh == [SyncState EXCEPT !.tasks = seq.tasks, !.next_number = 0,
                                   !.waiting = 0, !.invoked = <<>>,
                                   !.failures = <<>>, !.done = <<>>]
        r == run_sync(fresh, Context(<<>>))
    IN  /\ script_input' = [event |-> event, path |-> filePath,
                             ignored |-> ignoreFileEvents,
                             window |-> ignore_timers, n |-> n]
        /\ ignoreFileEvents' = ignore
        /\ ignore_timers' = IF delayed THEN ignore_timers + 1 ELSE ignore_timers
        /\ script_decision' = decision
        /\ IF decision.call = "none"
           THEN UNCHANGED <<sync_vars, script_data, reload_timers, script_log,
                            script_request, throttle_vars>>
           ELSE /\ script_data' = seq.data
                /\ SetSync(r, FALSE)
                /\ UNCHANGED <<reload_timers, script_log>>
                /\ IF seq.tasks[1].op = "delete_file"
                   THEN SubmitScriptRequest("DELETE", seq.tasks[1].key, "none")
                   ELSE /\ script_request' = [state |-> "none", id |-> 0]
                        /\ UNCHANGED throttle_vars
        /\ UNCHANGED <<websocket, async_vars, theme_vars, pkg_vars, api_vars>>

\* The first event the watcher reports.
ScriptEvent(event, filePath, has_manifest) ==
    /\ script_input.event = "none"
    /\ HandleScriptEvent(event, filePath, has_manifest, 1)

\* The timer of startDelay() fires: ignoreFileEvents = false.
IgnoreWindowEnds ==
    /\ ignore_timers > 0
    /\ ignore_timers' = ignore_timers - 1
    /\ ignoreFileEvents' = FALSE
    /\ UNCHANGED <<script_input, script_decision, script_data, script_request,
                   websocket, reload_timers, script_log,
                   throttle_vars, sync_vars, async_vars, theme_vars, pkg_vars, api_vars>>

\* What the callback of a requestor's I/O does with the result.
\*   minify_js, sortJsFiles:  if (error) return cb(null, error); ... return cb(data)
\*   get_all_file_paths:      if (err) throw err; ... cb(data)
\*   unlink_file:             if (err) log("Error", err); return cb(data)
io_callback_outcome(op, ok) ==
    IF ok THEN "continue"
    ELSE IF op = "get_all_file_paths" THEN "throw"
    ELSE IF op = "unlink_file" THEN "log_and_continue"
    ELSE "fail"

\* The local I/O of the requestor in flight completes and its callback runs.
ScriptTaskCallback(ok) ==
    LET op == sync_tasks[sync_waiting].op
        outcome == io_callback_outcome(op, ok)
        r == async_callback(SyncState, sync_waiting, outcome # "fail",
                            sync_invoked[Len(sync_invoked)].value)
        logged == IF outcome = "log_and_continue"
                  THEN Append(script_log, [log |-> "Error", key |-> script_data.key])
                  ELSE script_log
    IN  /\ sync_pc = "running"
        /\ sync_waiting # 0
        /\ op \notin {"upload_file", "delete_file"}
        /\ IF outcome = "throw"
           THEN /\ sync_pc' = "uncaught"
                /\ UNCHANGED <<sync_tasks, sync_cb_throws, next_number, sync_waiting,
                               sync_invoked, sync_failures, sync_done, sync_escaped,
                               reload_timers, script_log>>
           ELSE /\ SetSync(r, TRUE)
                /\ LET calls == restartSocket_calls(r)
                       failed == SelectSeq(calls, LAMBDA c : c.value.is_null)
                       passed == SelectSeq(calls, LAMBDA c : ~c.value.is_null)
                   IN  /\ script_log' = logged
                              \o [i \in 1..Len(failed) |->
                                     [log |-> "Error", key |-> script_data.key]]
                              \o [i \in 1..Len(passed) |->
                                     [log |-> "Uploading", key |-> script_data.key]]
                       /\ reload_timers' = reload_timers
                              \o [i \in 1..Len(passed) |-> script_data]
        /\ UNCHANGED <<ignoreFileEvents, ignore_timers, script_input, script_decision,
                       script_data, script_request, websocket,
                       throttle_vars, async_vars, theme_vars, pkg_vars, api_vars>>

\* upload_file: the callback of fs.readFile.  With the content it builds the
\* PUT request and calls the requestor of make_requestor, which starts or
\* queues the request; on a read error it throws.
UploadFileRead(ok) ==
    /\ sync_pc = "running"
    /\ sync_waiting # 0
    /\ sync_tasks[sync_waiting].op = "upload_file"
    /\ script_request.state = "none"
    /\ IF ok
       THEN /\ SubmitScriptRequest("PUT", sync_tasks[sync_waiting].key,
                                   IF sync_tasks[sync_waiting].is_binary
                                   THEN "attachment" ELSE "value")
            /\ UNCHANGED sync_vars
       ELSE /\ sync_pc' = "uncaught"
            /\ UNCHANGED <<sync_tasks, sync_cb_throws, next_number, sync_waiting,
                           sync_invoked, sync_failures, sync_done, sync_escaped,
                           script_request, throttle_vars>>
    /\ UNCHANGED <<ignoreFileEvents, ignore_timers, script_input, script_decision,
                   script_data, websocket, reload_timers, script_log,
                   async_vars, theme_vars, pkg_vars, api_vars>>

\* The response of the started request ends: its callback calls the
\* continuation of upload_file or delete_file, cb(data).
RequestResponseEnd ==
    /\ sync_pc = "running"
    /\ script_request.state = "sent"
    /\ \E i \in 1..Len(started) : started[i] = script_request.id
    /\ script_request' = [script_request EXCEPT !.state = "answered"]
    /\ LET r == async_callback(SyncState, sync_waiting, TRUE,
                               sync_invoked[Len(sync_invoked)].value)
       IN  SetSync(r, TRUE) /\ SetRestartSocket(r, script_data)
    /\ UNCHANGED <<ignoreFileEvents, ignore_timers, script_input, script_decision,
                   script_data, websocket, throttle_vars, async_vars, theme_vars, pkg_vars, api_vars>>

\* The started request emits "error": it is logged, nothing else is called.
RequestError ==
    /\ sync_pc = "running"
    /\ script_request.state = "sent"
    /\ \E i \in 1..Len(started) : started[i] = script_request.id
    /\ script_request' = [script_request EXCEPT !.state = "errored"]
    /\ script_log' = Append(script_log, [log |-> "Error", key |-> script_request.key])
    /\ UNCHANGED <<ignoreFileEvents, ignore_timers, script_input, script_decision,
                   script_data, websocket, reload_timers,
                   throttle_vars, sync_vars, async_vars, theme_vars, pkg_vars, api_vars>>

\* An exception reached the event loop: the process has ended.
Crashed == sync_pc = "uncaught" \/ theme_pc = "uncaught"

\* The timer of restartSocket fires: log(data.log_type, data.key), then
\* websocket.terminate(), which throws when no client ever connected.
ReloadTimer ==
    /\ ~Crashed
    /\ Len(reload_timers) > 0
    /\ reload_timers' = Tail(reload_timers)
    /\ script_log' = Append(script_log, [log |-> Head(reload_timers).log_type,
                                         key |-> Head(reload_timers).key])
    /\ IF websocket = "undefined"
       THEN /\ sync_pc' = "uncaught"
            /\ UNCHANGED websocket
       ELSE /\ websocket' = "terminated"
            /\ UNCHANGED sync_pc
    /\ UNCHANGED <<sync_tasks, sync_cb_throws, next_number, sync_waiting,
                   sync_invoked, sync_failures, sync_done, sync_escaped,
                   ignoreFileEvents, ignore_timers, script_input, script_decision,
                   script_data, script_request,
                   throttle_vars, async_vars, theme_vars, pkg_vars, api_vars>>

\* wss.on("connection"): a browser connects; websocket = ws.
ClientConnects ==
    /\ ~Crashed
    /\ websocket # "open"
    /\ websocket' = "open"
    /\ UNCHANGED <<ignoreFileEvents, ignore_timers, script_input, script_decision,
                   script_data, script_request, reload_timers, script_log,
                   throttle_vars, sync_vars, async_vars, theme_vars, pkg_vars, api_vars>>

ScriptNext ==
    \/ \E in \in ScriptInputs, has_manifest \in BOOLEAN :
          ScriptEvent(in[1], in[2], has_manifest)
    \/ IgnoreWindowEnds
    \/ \E ok \in BOOLEAN : ScriptTaskCallback(ok)
    \/ \E ok \in BOOLEAN : UploadFileRead(ok)
    \/ RequestResponseEnd
    \/ RequestError
    \/ ReloadTimer
    \/ ClientConnects
    \/ PollTick
    \/ ThrottleTick

ScriptSpec == ScriptInit /\ [][ScriptNext]_vars

----------------------------------------------------------------------------
\* index.js: the scripts watcher over several events, for the window of
\* startDelay().

\* Most events the watcher reports in one run.
MaxScriptEvents == 3

\* Events tried: directory events on a group, and file events on a
\* standalone module and on a file of the group.
WindowInputs ==
    ({"addDir", "unlinkDir"} \X {PathJoin(<<paths_scripts, <<"w", "i", "d", "g", "e", "t", "s">>>>)})
        \cup ({"add", "unlink"}
                 \X {PathJoin(<<paths_scripts, <<"c", "h", "e", "c", "k", "o", "u", "t", ".", "j", "s">>>>),
                      PathJoin(<<paths_scripts, <<"w", "i", "d", "g", "e", "t", "s", "/", "a", ".", "j", "s">>>>)})

\* The watcher runs, no directory event has happened yet and a browser is
\* connected.
WindowInit ==
    /\ ScriptQuiet
    /\ websocket = "open"
    /\ ThrottleIdle
    /\ SyncIdle
    /\ AsyncIdle
    /\ ThemeIdle
    /\ PkgIdle
    /\ ApiIdle

\* A later event the watcher reports, once the sequence of the event before
\* it has ended.
LaterScriptEvent(event, filePath, has_manifest) ==
    /\ script_input.event # "none"
    /\ script_input.n < MaxScriptEvents
    /\ sync_pc # "running"
    /\ ~Crashed
    /\ HandleScriptEvent(event, filePath, has_manifest, script_input.n + 1)

WindowNext ==
    \/ \E in \in WindowInputs : ScriptEvent(in[1], in[2], FALSE)
    \/ \E in \in WindowInputs : LaterScriptEvent(in[1], in[2], FALSE)
    \/ IgnoreWindowEnds
    \/ \E ok \in BOOLEAN : ScriptTaskCallback(ok)
    \/ \E ok \in BOOLEAN : UploadFileRead(ok)
    \/ RequestResponseEnd
    \/ ReloadTimer

WindowSpec == WindowInit /\ [][WindowNext]_vars

----------------------------------------------------------------------------
\* index.js: the sequence theme_event_handler starts for an event.

\* The theme watcher runs; a browser may be connected.
ThemeInit ==
    /\ ThemeIdle
    /\ ScriptQuiet
    /\ websocket \in {"undefined", "open"}
    /\ ThrottleIdle
    /\ SyncIdle
    /\ AsyncIdle
    /\ PkgIdle
    /\ ApiIdle

\* const update_file = function (delete_after=false) of theme_event_handler,
\* after the steps done so far: on add and change upload_file starts reading
\* curr_path, on unlink delete_file calls the requestor of make_requestor.
UpdateFile(event, out, steps) ==
    IF event \in {"add", "change"}
    THEN /\ theme_pc' = "reading"
         /\ theme_steps' = Append(steps, [op |-> "read", path |-> out.curr_path,
                                          key |-> out.key, is_binary |-> out.is_binary])
         /\ UNCHANGED <<script_request, throttle_vars>>
    ELSE IF event = "unlink"
    THEN /\ theme_pc' = "requesting"
         /\ theme_steps' = Append(steps, [op |-> "request", method |-> "DELETE",
                                          key |-> out.key])
         /\ SubmitScriptRequest("DELETE", out.key, "none")
    ELSE /\ theme_pc' = "done"
         /\ theme_steps' = steps
         /\ UNCHANGED <<script_request, throttle_vars>>

\* The theme watcher reports event for a file; theme_event_handler runs, and
\* with it the start of the first I/O of the sequence.
ThemeEvent(event, dir, sub, name) ==
    LET file_path == ThemeFilePath(dir, sub, name)
        out == theme_event_handler(event, file_path)
    IN  /\ ~theme_out.handled
        /\ theme_input' = [event |-> event, dir |-> dir, sub |-> sub, name |-> name,
                           path |-> file_path]
        /\ theme_out' = out
        /\ IF out.returned_early
           THEN /\ theme_pc' = "done"
                /\ UNCHANGED <<theme_steps, theme_event_data, script_request,
                               throttle_vars>>
           ELSE /\ theme_event_data' = [key |-> out.event_key, log_type |-> out.log_type]
                /\ IF out.op = "minify"
                   THEN /\ theme_pc' = "minifying"
                        /\ theme_steps' = <<[op |-> "minify", from |-> file_path,
                                             to |-> out.curr_path]>>
                        /\ UNCHANGED <<script_request, throttle_vars>>
                   ELSE UpdateFile(event, out, <<>>)
        /\ UNCHANGED <<ignoreFileEvents, ignore_timers, script_input, script_decision,
                       script_data, websocket, reload_timers, script_log,
                       sync_vars, async_vars, pkg_vars, api_vars>>

\* The callback given to Fs.minify_js(file_path, curr_path) for a file of
\* snippets/inline-scripts: if (data === null) throw reason; return update_file(true).
ThemeMinifyDone(ok) ==
    /\ theme_pc = "minifying"
    /\ IF ok
       THEN UpdateFile(theme_input.event, theme_out,
                       Append(theme_steps, [op |-> "minified"]))
       ELSE /\ theme_pc' = "uncaught"
            /\ UNCHANGED <<theme_steps, script_request, throttle_vars>>
    /\ UNCHANGED <<theme_input, theme_out, theme_event_data,
                   ignoreFileEvents, ignore_timers, script_input, script_decision,
                   script_data, websocket, reload_timers, script_log,
                   sync_vars, async_vars, pkg_vars, api_vars>>

\* upload_file: the callback of fs.readFile(curr_path): if (err) throw err;
\* otherwise the PUT is handed to the requestor of make_requestor.
ThemeUploadRead(ok) ==
    /\ theme_pc = "reading"
    /\ IF ok
       THEN /\ theme_pc' = "requesting"
            /\ theme_steps' = Append(theme_steps,
                   [op |-> "request", method |-> "PUT", key |-> theme_out.key])
            /\ SubmitScriptRequest("PUT", theme_out.key,
                                   IF theme_out.is_binary THEN "attachment" ELSE "value")
       ELSE /\ theme_pc' = "uncaught"
            /\ UNCHANGED <<theme_steps, script_request, throttle_vars>>
    /\ UNCHANGED <<theme_input, theme_out, theme_event_data,
                   ignoreFileEvents, ignore_timers, script_input, script_decision,
                   script_data, websocket, reload_timers, script_log,
                   sync_vars, async_vars, pkg_vars, api_vars>>

\* A second timer set for the same call.
restartSocket_timer_twice(timers, data) == timers \o <<data, data>>

\* restartSocket(data) with data.log_type # "Upload Failed": the one
\* setTimeout(..., 2000) whose callback ends the client connection.
restartSocket_timer(timers, data) == Append(timers, data)

\* The response of the sequence's request ends, cb(data): the continuation
\* given by update_file starts fs.unlink(curr_path) when delete_after, and
\* calls restartSocket(eventData), which logs "Uploading" and sets the timer.
ThemeResponseEnd ==
    LET delete_after == theme_out.op = "minify" /\ script_request.method = "PUT"
        answered == Append(theme_steps, [op |-> "response",
                                         method |-> script_request.method])
    IN  /\ theme_pc = "requesting"
        /\ script_request.state = "sent"
        /\ \E i \in 1..Len(started) : started[i] = script_request.id
        /\ script_request' = [script_request EXCEPT !.state = "answered"]
        /\ theme_steps' =
              (IF delete_after
               THEN Append(answered, [op |-> "unlink", path |-> theme_out.curr_path])
               ELSE answered)
              \o <<[op |-> "restartSocket", log_type |-> theme_event_data.log_type]>>
        /\ theme_pc' = IF delete_after THEN "unlinking" ELSE "done"
        /\ script_log' = Append(script_log, [log |-> "Uploading",
                                             key |-> theme_event_data.key])
        /\ reload_timers' = restartSocket_timer(reload_timers, theme_event_data)
        /\ UNCHANGED <<theme_input, theme_out, theme_event_data,
                       ignoreFileEvents, ignore_timers, script_input, script_decision,
                       script_data, websocket,
                       throttle_vars, sync_vars, async_vars, pkg_vars, api_vars>>

\* The sequence's request emits "error": log("Error", err), nothing else.
ThemeRequestError ==
    /\ theme_pc = "requesting"
    /\ script_request.state = "sent"
    /\ \E i \in 1..Len(started) : started[i] = script_request.id
    /\ script_request' = [script_request EXCEPT !.state = "errored"]
    /\ script_log' = Append(script_log, [log |-> "Error", key |-> script_request.key])
    /\ UNCHANGED <<theme_vars,
                   ignoreFileEvents, ignore_timers, script_input, script_decision,
                   script_data, websocket, reload_timers,
                   throttle_vars, sync_vars, async_vars, pkg_vars, api_vars>>

\* The callback of fs.unlink(curr_path) in update_file: if (err) throw err.
ThemeUnlinkDone(ok) ==
    /\ theme_pc = "unlinking"
    /\ ~Crashed
    /\ theme_pc' = IF ok THEN "done" ELSE "uncaught"
    /\ theme_steps' = IF ok THEN Append(theme_steps, [op |-> "unlinked"]) ELSE theme_steps
    /\ UNCHANGED <<theme_input, theme_out, theme_event_data, script_vars,
                   throttle_vars, sync_vars, async_vars, pkg_vars, api_vars>>

ThemeNext ==
    \/ \E event \in WatchEvents, dir \in ThemeTopDirs, sub \in ThemeSubDirs,
          name \in ThemeFileNames : ThemeEvent(event, dir, sub, name)
    \/ \E ok \in BOOLEAN : ThemeMinifyDone(ok)
    \/ \E ok \in BOOLEAN : ThemeUploadRead(ok)
    \/ ThemeResponseEnd
    \/ ThemeRequestError
    \/ \E ok \in BOOLEAN : ThemeUnlinkDone(ok)
    \/ ReloadTimer
    \/ ClientConnects
    \/ PollTick

ThemeSpec == ThemeInit /\ [][ThemeNext]_vars

----------------------------------------------------------------------------
\* Packaging a module group: fs_operations.js get_all_file_paths, index.js
\* sortJsFiles, and the minify_js requestor that takes its input from
\* data.files (minify_js("from data", output)).

\* The characters of the paths used, in the order of their code units.
CharOrder ==
    <<"-", ".", "/", "0", "1", "2", "3", "4", "5", "6", "7", "8", "9", "_",
      "a", "b", "c", "d", "e", "f", "g", "h", "i", "j", "k", "l", "m",
      "n", "o", "p", "q", "r", "s", "t", "u", "v", "w", "x", "y", "z">>

CharCode(c) == CHOOSE i \in 1..Len(CharOrder) : CharOrder[i] = c

\* a < b for two strings, as Array.prototype.sort() compares them by default.
StringLess(a, b) ==
    \/ /\ Len(a) < Len(b)
       /\ SubSeq(b, 1, Len(a)) = a
    \/ \E k \in 1..Len(a) :
          /\ k <= Len(b)
          /\ SubSeq(a, 1, k - 1) = SubSeq(b, 1, k - 1)
          /\ CharCode(a[k]) < CharCode(b[k])

RECURSIVE SortStrings(_)
\* array.sort() of an array of strings
SortStrings(array) ==
    IF Len(array) = 0 THEN <<>>
    ELSE LET m == CHOOSE i \in 1..Len(array) :
                      /\ \A j \in 1..Len(array) : ~StringLess(array[j], array[i])
                      /\ \A j \in 1..(i - 1) : array[j] # array[i]
         IN  <<array[m]>>
                 \o SortStrings(SubSeq(array, 1, m - 1) \o SubSeq(array, m + 1, Len(array)))

\* get_all_file_paths(base_dir)(cb, data), up to the end of directory_reader():
\* data.files = [], and one fs.readdir is under way for each of dirs_to_read.
\* called_back says that cb(data) was called.
get_all_file_paths(owner, base_dir) ==
    [owner |-> owner, dirs_to_read |-> <<base_dir>>, pending |-> {base_dir},
     tmp_dirent_array |-> <<>>, files |-> <<>>, called_back |-> FALSE]

\* function directory_reader()
directory_reader(l) ==
    [l EXCEPT !.pending = {l.dirs_to_read[i] : i \in 1..Len(l.dirs_to_read)}]

\* function check_if_done()
check_if_done(l) ==
    LET cleared == [l EXCEPT !.tmp_dirent_array = <<>>]
    IN  IF Len(cleared.dirs_to_read) # 0
        THEN directory_reader(cleared)
        ELSE [cleared EXCEPT !.called_back = TRUE]

RECURSIVE handle_dirents(_, _, _)
\* dirents.forEach(...) of dirent_handler, for the directory path
handle_dirents(l, path, dirents) ==
    IF Len(dirents) = 0 THEN l
    ELSE LET dirent == Head(dirents)
             dir_path == path \o <<"/">> \o dirent.name
             pushed == IF dirent.is_dir
                       THEN [l EXCEPT !.dirs_to_read = Append(@, dir_path)]
                       ELSE [l EXCEPT !.files = Append(@, dir_path)]
         IN  handle_dirents(pushed, path, Tail(dirents))

RECURSIVE handle_dirent_objs(_, _)
\* tmp_dirent_array.forEach(...) of dirent_handler, from element i on
handle_dirent_objs(l, i) ==
    IF i > Len(l.tmp_dirent_array) THEN l
    ELSE LET dirent_obj == l.tmp_dirent_array[i]
             handled == handle_dirents(l, dirent_obj.dirName, dirent_obj.files)
         IN  IF i = Len(l.tmp_dirent_array)
             THEN check_if_done(handled)
             ELSE handle_dirent_objs(handled, i + 1)

\* function dirent_handler()
dirent_handler(l) == handle_dirent_objs(l, 1)

\* dirent_organizer without the test that every read of the round called back.
dirent_organizer_first_answer(l, dir_path, dirents) ==
    LET pushed == [l EXCEPT !.tmp_dirent_array =
                                Append(@, [dirName |-> dir_path, files |-> dirents]),
                            !.pending = @ \ {dir_path}]
    IN  dirent_handler([pushed EXCEPT !.dirs_to_read = <<>>])

\* The callback of fs.readdir for dir_path with its dirents:
\* function dirent_organizer(data)
dirent_organizer(l, dir_path, dirents) ==
    LET pushed == [l EXCEPT !.tmp_dirent_array =
                                Append(@, [dirName |-> dir_path, files |-> dirents]),
                            !.pending = @ \ {dir_path}]
    IN  IF Len(pushed.tmp_dirent_array) = Len(pushed.dirs_to_read)
        THEN dirent_handler([pushed EXCEPT !.dirs_to_read = <<>>])
        ELSE pushed

\* Characters that String.prototype.trim() removes.
WhiteSpace == {" ", "\n", "\t", "\r"}

RECURSIVE TrimStart(_)
TrimStart(str) ==
    IF Len(str) > 0 /\ Head(str) \in WhiteSpace THEN TrimStart(Tail(str)) ELSE str

RECURSIVE TrimEnd(_)
TrimEnd(str) ==
    IF Len(str) > 0 /\ str[Len(str)] \in WhiteSpace
    THEN TrimEnd(SubSeq(str, 1, Len(str) - 1))
    ELSE str

\* str.trim()
Trim(str) == TrimEnd(TrimStart(str))

\* sortJsFilesRequestor(cb, data) up to its first I/O: the names of data.files
\* and, when one of them is _script-order, the manifest file it reads.
sortJsFiles_names(files) == [i \in 1..Len(files) |-> PathParse(files[i]).name]

sortJsFiles_has_manifest(files) ==
    ArrayIncludes(sortJsFiles_names(files), <<"_", "s", "c", "r", "i", "p", "t", "-", "o", "r", "d", "e", "r">>)

\* The callback of fs.readFile(sortOrderFilePath) on success, up to
\* sortFilePaths(0): moduleNames and the emptied data.files.  waiting is the
\* directory whose listing sortFilePaths waits for, done says cb(data) was called.
sortJsFiles_start(files, fileText) ==
    LET names == Split(fileText, ",")
    IN  [moduleFilePaths |-> files,
         moduleFileNames |-> sortJsFiles_names(files),
         moduleNames |-> [i \in 1..Len(names) |-> Trim(names[i])],
         index |-> 0, files |-> <<>>, waiting |-> <<>>, done |-> FALSE]

\* A sortFilePaths that keeps the files the manifest names in the order of
\* the listing, and lists no sub-directory.
sortFilePaths_files_only(st, moduleGroupPath) ==
    [st EXCEPT !.files = SelectSeq([i \in 1..Len(st.moduleFilePaths) |-> st.moduleFilePaths[i]],
                                   LAMBDA f : ArrayIncludes(st.moduleNames, PathParse(f).name)),
               !.index = Len(st.moduleNames), !.done = TRUE]

RECURSIVE sortFilePaths(_, _)
\* (function sortFilePaths(index) {...}) of sortJsFiles, from st.index on
sortFilePaths(st, moduleGroupPath) ==
    IF st.index > Len(st.moduleNames) - 1
    THEN [st EXCEPT !.done = TRUE]
    ELSE LET name == st.moduleNames[st.index + 1]
             next == [st EXCEPT !.index = @ + 1]
         IN  IF ArrayIncludes(st.moduleFileNames, name)
             THEN sortFilePaths(
                      [next EXCEPT !.files = Append(@,
                           st.moduleFilePaths[ArrayIndexOf(st.moduleFileNames, name)])],
                      moduleGroupPath)
             ELSE [next EXCEPT !.waiting =
                      IF name = <<>> THEN moduleGroupPath
                      ELSE PathJoin(<<moduleGroupPath, name>>)]

\* The callback sortFilePaths gives to get_all_file_paths for a sub-directory:
\* its files are sorted and pushed, and sortFilePaths goes on.
sortFilePaths_listed(st, filePaths, moduleGroupPath) ==
    sortFilePaths([st EXCEPT !.files = @ \o SortStrings(filePaths), !.waiting = <<>>],
                  moduleGroupPath)

\* The scripts group packaged and the entries of its directories.
GroupPath == PathJoin(<<paths_scripts, <<"w", "i", "d", "g", "e", "t", "s">>>>)
SubPath == PathJoin(<<GroupPath, <<"s", "u", "b">>>>)

File(name) == [name |-> name, is_dir |-> FALSE]
Dir(name) == [name |-> name, is_dir |-> TRUE]

GroupEntries == {File(<<"a", ".", "j", "s">>), File(<<"b", ".", "j", "s">>), Dir(<<"s", "u", "b">>)}
ManifestEntry == File(<<"_", "s", "c", "r", "i", "p", "t", "-", "o", "r", "d", "e", "r", ".", "j", "s">>)
SubEntries == {File(<<"c", ".", "j", "s">>), File(<<"d", ".", "j", "s">>)}

\* The orders in which fs.readdir may return the entries of a directory.
Orders(S) == {q \in [1..Cardinality(S) -> S] : \A e \in S : \E i \in DOMAIN q : q[i] = e}

\* Texts of _script-order.js tried.
ManifestTexts ==
    {<<"b", ",", " ", "a">>, <<"a", ",", "b">>, <<"b", ",", "\n", "s", "u", "b", ",", " ", "a", "\n">>,
     <<"s", "u", "b", ",", "b">>, <<"d", ",", " ", "a", ",", " ", "c">>, <<"a", ",", " ", "l", "i", "b">>}

\* The text of a file; a file is told from the others by its path.
FileText(path) == path

\* orderedFileContents[fileIndex] = text, on a JavaScript array: the array
\* grows to the index, the elements never assigned being empty.
ArraySet(array, i, v) ==
    [k \in 1..(IF i > Len(array) THEN i ELSE Len(array)) |->
        IF k = i THEN v ELSE IF k <= Len(array) THEN array[k] ELSE <<>>]

\* The requestors of part 1 of minify_js_requestors: one read per file of
\* data.files, which run_async schedules with setTimeout(requestor, 0, ...)
\* and no time limit; the timers fire in the order set and each only starts
\* its fs.readFile, without reading or writing the value it is handed.
StartMinify(files) ==
    /\ data_files' = files
    /\ async_n' = Len(files)
    /\ async_cb_throws' = FALSE
    /\ async_pc' = "running"
    /\ async_task' = [i \in 1..Len(files) |-> "running"]
    /\ async_result' = [i \in 1..Len(files) |-> "none"]
    /\ num_checked_in' = 0
    /\ async_done' = <<>>
    /\ async_timer' = "no_limit"
    /\ async_writes' = [i \in 1..Len(files) |-> FALSE]
    /\ async_context' = {}
    /\ async_seen' = [i \in 1..Len(files) |-> {}]
    /\ ordered_contents' = <<>>
    /\ file_data' = <<>>
    /\ pkg_pc' = "reading_files"

\* sortJsFiles has its answer st: it waits for the listing of a sub-directory,
\* or it called cb(data) and run_sync called minify_js_requestors.
AfterSort(st) ==
    /\ sort_state' = st
    /\ IF st.done
       THEN /\ StartMinify(st.files)
            /\ listing' = NoListing
       ELSE /\ listing' = get_all_file_paths("entry", st.waiting)
            /\ pkg_pc' = "listing"
            /\ data_files' = st.files
            /\ UNCHANGED <<async_vars, ordered_contents, file_data>>

\* A module group is on disk, with or without a manifest.
PkgInit ==
    /\ \E with_manifest \in BOOLEAN :
         \E g \in Orders(GroupEntries \cup (IF with_manifest THEN {ManifestEntry} ELSE {})),
            sub \in Orders(SubEntries) :
              /\ disk = (GroupPath :> g) @@ (SubPath :> sub)
              /\ manifest_text \in (IF with_manifest THEN ManifestTexts ELSE {<<>>})
    /\ pkg_pc = "idle"
    /\ listing = NoListing
    /\ data_files = <<>>
    /\ sort_state = [index |-> 0]
    /\ ordered_contents = <<>>
    /\ file_data = <<>>
    /\ dirs_read = {}
    /\ written = <<>>
    /\ pkg_calls = <<>>
    /\ ThrottleIdle
    /\ SyncIdle
    /\ AsyncIdle
    /\ ThemeIdle
    /\ ScriptIdle
    /\ ApiIdle

\* packageJsModuleGroup(GroupPath, cb): run_sync calls the requestor of
\* get_all_file_paths(moduleGroupPath) with the data object.
PackageStart ==
    /\ pkg_pc = "idle"
    /\ pkg_pc' = "listing"
    /\ listing' = get_all_file_paths("group", GroupPath)
    /\ UNCHANGED <<disk, manifest_text, data_files, sort_state, ordered_contents, file_data,
                   dirs_read,
                   written, pkg_calls,
                   throttle_vars, sync_vars, async_vars, theme_vars, api_vars, script_vars>>

\* The callback of fs.readdir for a directory of the running listing.  A
\* directory that cannot be read makes it throw (if (err) throw err).  When
\* the listing is complete its cb runs: for the group, run_sync goes on to
\* sortJsFilesRequestor; for a manifest entry, sortFilePaths goes on.
ReadDirDone(dir_path) ==
    /\ pkg_pc = "listing"
    /\ dir_path \in listing.pending
    /\ IF dir_path \notin DOMAIN disk
       THEN /\ pkg_pc' = "uncaught"
            /\ UNCHANGED <<listing, data_files, sort_state, ordered_contents, file_data,
                           async_vars>>
       ELSE LET l == dirent_organizer(listing, dir_path, disk[dir_path])
            IN  IF ~l.called_back
                THEN /\ listing' = l
                     /\ UNCHANGED <<pkg_pc, data_files, sort_state, ordered_contents, file_data,
                                    async_vars>>
                ELSE IF l.owner = "entry"
                THEN AfterSort(sortFilePaths_listed(sort_state, l.files, GroupPath))
                ELSE IF sortJsFiles_has_manifest(l.files)
                THEN /\ pkg_pc' = "reading_manifest"
                     /\ data_files' = l.files
                     /\ listing' = NoListing
                     /\ UNCHANGED <<sort_state, ordered_contents, file_data, async_vars>>
                ELSE /\ StartMinify(l.files)
                     /\ listing' = NoListing
                     /\ UNCHANGED sort_state
    /\ dirs_read' = IF dir_path \in DOMAIN disk THEN dirs_read \cup {dir_path} ELSE dirs_read
    /\ UNCHANGED <<disk, manifest_text, written, pkg_calls,
                   throttle_vars, sync_vars, theme_vars, api_vars, script_vars>>

\* The callback of fs.readFile(sortOrderFilePath, "utf8", ...) of sortJsFiles:
\* if (err) return cb(null, err), which ends the sequence; otherwise the
\* manifest is split and sortFilePaths(0) runs.
ManifestRead(ok) ==
    /\ pkg_pc = "reading_manifest"
    /\ IF ok
       THEN /\ AfterSort(sortFilePaths(sortJsFiles_start(data_files, manifest_text),
                                       GroupPath))
            /\ UNCHANGED pkg_calls
       ELSE /\ pkg_pc' = "failed"
            /\ pkg_calls' = Append(pkg_calls, "sort failed")
            /\ UNCHANGED <<listing, data_files, sort_state, ordered_contents, file_data,
                           async_vars>>
    /\ UNCHANGED <<disk, manifest_text, written, dirs_read,
                   throttle_vars, sync_vars, theme_vars, api_vars, script_vars>>

\* The callback of fs.readFile for file i of data.files in
\* minify_js_requestors: cb(null, err), or orderedFileContents[i] = text and
\* cb().  cb is check_in of run_async, whose cb is write_data: on a failure
\* it calls the continuation with the failure; when all have checked in it
\* writes orderedFileContents.join("\n") and starts jsmin on it.  The earlier
\* revision has file_data.push(text) for orderedFileContents[i] = text and
\* writes file_data.join("").
FileRead(i, ok) ==
    LET r == check_in(AsyncState, i, ok)
        calls == SubSeq(r.done, Len(async_done) + 1, Len(r.done))
        contents == IF ok THEN ArraySet(ordered_contents, i, FileText(data_files[i]))
                    ELSE ordered_contents
    IN  /\ pkg_pc \in {"reading_files", "minifying", "minified"}
        /\ i \in 1..async_n
        /\ async_task[i] = "running"
        /\ SetAsync(r, i, ok)
        /\ ordered_contents' = contents
        /\ file_data' = IF ok THEN Append(file_data, FileText(data_files[i])) ELSE file_data
        /\ pkg_calls' = pkg_calls \o
               [k \in 1..Len(SelectSeq(calls, LAMBDA c : c.failed)) |-> "minify failed"]
        /\ IF \E k \in 1..Len(calls) : ~calls[k].failed
           THEN /\ written' = Append(written, contents)
                /\ pkg_pc' = "minifying"
           ELSE UNCHANGED <<written, pkg_pc>>
        /\ UNCHANGED <<disk, manifest_text, listing, data_files, sort_state, dirs_read,
                       async_n, async_cb_throws, async_writes, async_context,
                       async_seen,
                       throttle_vars, sync_vars, theme_vars, api_vars, script_vars>>

\* The callback of exec(jsmin <written >output): the continuation is called
\* with the failure, or the written file is unlinked and cb(data) is called.
Minified(ok) ==
    /\ pkg_pc = "minifying"
    /\ pkg_pc' = "minified"
    /\ pkg_calls' = Append(pkg_calls, IF ok THEN "minified" ELSE "minify failed")
    /\ UNCHANGED <<disk, manifest_text, listing, data_files, sort_state,
                   ordered_contents, file_data, dirs_read, written,
                   throttle_vars, sync_vars, async_vars, theme_vars, api_vars, script_vars>>

PkgNext ==
    \/ PackageStart
    \/ \E dir_path \in listing.pending : ReadDirDone(dir_path)
    \/ \E ok \in BOOLEAN : ManifestRead(ok)
    \/ \E i \in 1..async_n, ok \in BOOLEAN : FileRead(i, ok)
    \/ \E ok \in BOOLEAN : Minified(ok)

PackageSpec == PkgInit /\ [][PkgNext]_vars

----------------------------------------------------------------------------
\* get_all_file_paths(theme_path), as Deploy calls it: the listing of a tree
\* of directories, whose reads of a round call back in any order.

\* The directories a tree of theme/ may have, each with the directory it is
\* in and its name, and the file each may hold.
AssetsPath == PathJoin(<<paths_theme, <<"a", "s", "s", "e", "t", "s">>>>)
SnippetsPath == PathJoin(<<paths_theme, <<"s", "n", "i", "p", "p", "e", "t", "s">>>>)
InlineScriptsPath == PathJoin(<<SnippetsPath, <<"i", "n", "l", "i", "n", "e", "-", "s", "c", "r", "i", "p", "t", "s">>>>)

TreeDirs == {paths_theme, AssetsPath, SnippetsPath, InlineScriptsPath}

TreeParent ==
    (AssetsPath :> paths_theme) @@ (SnippetsPath :> paths_theme)
    @@ (InlineScriptsPath :> SnippetsPath) @@ (paths_theme :> <<>>)

TreeDirName ==
    (AssetsPath :> <<"a", "s", "s", "e", "t", "s">>) @@ (SnippetsPath :> <<"s", "n", "i", "p", "p", "e", "t", "s">>)
    @@ (InlineScriptsPath :> <<"i", "n", "l", "i", "n", "e", "-", "s", "c", "r", "i", "p", "t", "s">>) @@ (paths_theme :> <<>>)

TreeFileName ==
    (AssetsPath :> <<"l", "o", "g", "o", ".", "p", "n", "g">>) @@ (SnippetsPath :> <<"c", "a", "r", "t", ".", "l", "i", "q", "u", "i", "d">>)
    @@ (InlineScriptsPath :> <<"c", "a", "r", "t", ".", "j", "s">>) @@ (paths_theme :> <<"c", "o", "n", "f", "i", "g", ".", "y", "m", "l">>)

\* The sets of directories that make a tree with root theme/.
TreeShapes ==
    {ds \in SUBSET TreeDirs :
        /\ paths_theme \in ds
        /\ \A d \in ds : d # paths_theme => TreeParent[d] \in ds}

\* The entries of directory dir_path in the tree of the directories ds whose
\* directories fs hold their file.
TreeEntries(ds, fs, dir_path) ==
    {Dir(TreeDirName[d]) : d \in {c \in ds : TreeParent[c] = dir_path}}
    \cup (IF dir_path \in fs THEN {File(TreeFileName[dir_path])} ELSE {})

\* The disks of that tree: fs.readdir returns the entries of a directory in
\* some order.
TreeDisks(ds, fs) ==
    {d \in [ds -> UNION {Orders(TreeEntries(ds, fs, q)) : q \in ds}] :
        \A q \in ds : d[q] \in Orders(TreeEntries(ds, fs, q))}

ListingInit ==
    /\ \E ds \in TreeShapes : \E fs \in SUBSET ds : disk \in TreeDisks(ds, fs)
    /\ manifest_text = <<>>
    /\ pkg_pc = "idle"
    /\ listing = NoListing
    /\ data_files = <<>>
    /\ sort_state = [index |-> 0]
    /\ ordered_contents = <<>>
    /\ file_data = <<>>
    /\ dirs_read = {}
    /\ written = <<>>
    /\ pkg_calls = <<>>
    /\ ThrottleIdle
    /\ SyncIdle
    /\ AsyncIdle
    /\ ThemeIdle
    /\ ScriptIdle
    /\ ApiIdle

\* run_sync calls the requestor of get_all_file_paths(theme_path) with the
\* data object: data.files = [], and the read of theme/ is under way.
ListingStart ==
    /\ pkg_pc = "idle"
    /\ pkg_pc' = "listing"
    /\ listing' = get_all_file_paths("caller", paths_theme)
    /\ UNCHANGED <<disk, manifest_text, data_files, sort_state, ordered_contents, file_data,
                   dirs_read, written, pkg_calls,
                   throttle_vars, sync_vars, async_vars, theme_vars, api_vars, script_vars>>

\* The callback of fs.readdir for a directory of the listing: with an error
\* it throws; with the dirents, dirent_organizer runs, and when the last
\* round found no directory cb(data) is called, recorded in pkg_calls with
\* data.files in data_files.
ListingReadDirDone(dir_path, ok) ==
    /\ listing.owner = "caller"
    /\ pkg_pc # "uncaught"
    /\ dir_path \in listing.pending
    /\ IF ~ok
       THEN /\ pkg_pc' = "uncaught"
            /\ UNCHANGED <<listing, data_files, dirs_read, pkg_calls>>
       ELSE LET l == dirent_organizer(listing, dir_path, disk[dir_path])
            IN  /\ listing' = l
                /\ dirs_read' = dirs_read \cup {dir_path}
                /\ IF l.called_back
                   THEN /\ data_files' = l.files
                        /\ pkg_calls' = Append(pkg_calls, "listed")
                        /\ pkg_pc' = "listed"
                   ELSE UNCHANGED <<data_files, pkg_calls, pkg_pc>>
    /\ UNCHANGED <<disk, manifest_text, sort_state, ordered_contents, file_data, written,
                   throttle_vars, sync_vars, async_vars, theme_vars, api_vars, script_vars>>

ListingNext ==
    \/ ListingStart
    \/ \E dir_path \in listing.pending, ok \in BOOLEAN : ListingReadDirDone(dir_path, ok)

ListingSpec == ListingInit /\ [][ListingNext]_vars

----------------------------------------------------------------------------
\* api_requests.js: the requestors of the remote asset API, in the two
\* revisions of the file (const api_version "2020-01" and "2020-10"), and
\* the remote that answers them.

ApiVersions == {"2020-01", "2020-10"}

\* The response.statusCode values the remote answers with.
StatusCodes == {200, 404, 500}

\* response.statusCode.toString()[0] === "2" (charAt(0) in "2020-01").
Is2xx(statusCode) == statusCode \div 100 = 2

\* Keys of theme assets tried.
AssetKeys == {<<"a", "s", "s", "e", "t", "s", "/", "f", "o", "n", "t", ".", "o", "t", "f">>, <<"s", "n", "i", "p", "p", "e", "t", "s", "/", "c", "a", "r", "t", ".", "l", "i", "q", "u", "i", "d">>}

\* Files of theme/ tried for an upload.
AssetFiles ==
    {ThemeFilePath(<<"a", "s", "s", "e", "t", "s">>, <<>>, <<"l", "o", "g", "o", ".", "p", "n", "g">>),
     ThemeFilePath(<<"a", "s", "s", "e", "t", "s">>, <<>>, <<"f", "o", "n", "t", ".", "o", "t", "f">>),
     ThemeFilePath(<<"s", "n", "i", "p", "p", "e", "t", "s">>, <<>>, <<"c", "a", "r", "t", ".", "l", "i", "q", "u", "i", "d">>)}

\* const non_string_formats = [...] of api_requests.js.
api_requests_non_string_formats ==
    <<<<".", "w", "o", "f", "f">>, <<".", "w", "o", "f", "f", "2">>, <<".", "p", "n", "g">>, <<".", "j", "p", "g">>, <<".", "e", "o", "t">>, <<".", "t", "t", "f">>, <<".", "g", "i", "f">>>>

\* Deploy, buildMap: the key of a file of theme/: its directory and its
\* name, [arr[0], arr[2] || arr[1]].join("/"), or the local key as it is
\* when it includes templates/customers.
buildMap_key(filename) ==
    LET keyPath == SubSeq(filename, Len(paths_theme) + 2, Len(filename))
        arr == Split(keyPath, "/")
    IN  IF Includes(keyPath, <<"t", "e", "m", "p", "l", "a", "t", "e", "s", "/", "c", "u", "s", "t", "o", "m", "e", "r", "s">>)
        THEN keyPath
        ELSE arr[1] \o <<"/">> \o (IF Len(arr) >= 3 THEN arr[3] ELSE arr[2])

\* upload_files: isBinary = non_string_formats.includes(Path.parse(readPath).ext).
upload_files_isBinary(readPath) ==
    ArrayIncludes(api_requests_non_string_formats, PathParse(readPath).ext)

\* The callers of upload_file for a file of theme/.
UploadCallers == {"theme_event_handler", "upload_files"}

\* The arguments caller gives upload_file(path, key, is_binary) for file_path:
\* update_file of theme_event_handler on a change event, or upload_files for
\* the entry of the map built by Deploy.
upload_file_arguments(caller, file_path) ==
    IF caller = "theme_event_handler"
    THEN LET out == theme_event_handler("change", file_path)
         IN  [path |-> out.curr_path, key |-> out.key, is_binary |-> out.is_binary]
    ELSE [path |-> file_path, key |-> buildMap_key(file_path),
          is_binary |-> upload_files_isBinary(file_path)]

\* The requestors called one after the other in a behaviour.
MaxApiOps == 2

\* The pages of the remote collection.
MaxPages == 3

\* The item counts of a page tried.
PageSizes == {0, 2}

\* The remote collections: n pages, page i holding items 10 * i + j.
RemotePages ==
    UNION {{[i \in 1..n |-> [j \in 1..size[i] |-> 10 * i + j]] :
               size \in [1..n -> PageSizes]} : n \in 1..MaxPages}

\* The Link header of page i of n, as the remote orders it: the link to the
\* previous page, then the link to the next one; a url is the page it names.
page_link(i, n) ==
    (IF i > 1 THEN <<[url |-> i - 1, rel |-> "previous"]>> ELSE <<>>)
        \o (IF i < n THEN <<[url |-> i + 1, rel |-> "next"]>> ELSE <<>>)

\* headerLink.includes("rel=\"...\"")
HasRel(headerLink, rel) ==
    \E i \in 1..Len(headerLink) : headerLink[i].rel = rel

\* Every link taken for the next page.
header_link_next_always(headerLink) ==
    IF headerLink # <<>> THEN headerLink[Len(headerLink)].url ELSE 0

\* make_request ("2020-10"), the value given to data.next:
\* headerLink.split(/<|>/)[3] when a previous link comes first, [1] otherwise,
\* and null (0 here) without a rel="next" link.
header_link_next(headerLink) ==
    IF headerLink # <<>> /\ HasRel(headerLink, "next")
    THEN IF HasRel(headerLink, "previous")
         THEN headerLink[2].url
         ELSE headerLink[1].url
    ELSE 0

\* The data object a requestor is called with, before a response is stored.
NoData == [results |-> <<>>, next |-> 0]

\* make_request of "2020-01", response.on("end"): the status is printed,
\* and cb(data) is called whatever it is.
response_end_2020_01(method, statusCode, headerLink, body, data) ==
    [is_null |-> FALSE, reason |-> "none",
     data |-> IF method = "GET" THEN [data EXCEPT !.results = body] ELSE data,
     log |-> IF Is2xx(statusCode) THEN <<>>
             ELSE <<[log |-> "statusCode", statusCode |-> statusCode]>>]

\* A DELETE answered 404 reported with a reason of its own.
response_end_2020_10_already_deleted(method, statusCode, headerLink, body, data) ==
    [is_null |-> ~Is2xx(statusCode),
     reason |-> IF Is2xx(statusCode) THEN "none"
                ELSE IF method = "DELETE" /\ statusCode = 404 THEN "Already deleted"
                ELSE "Request failed",
     data |-> IF method = "GET" /\ Is2xx(statusCode)
              THEN [results |-> body, next |-> header_link_next(headerLink)]
              ELSE data,
     log |-> <<>>]

\* make_request of "2020-10", response.on("end"): a status that does not
\* start with 2 is logged and reported, cb(null, "Request failed"); a GET
\* stores data.next and data.results.
response_end_2020_10(method, statusCode, headerLink, body, data) ==
    IF ~Is2xx(statusCode)
    THEN [is_null |-> TRUE, reason |-> "Request failed", data |-> data,
          log |-> <<[log |-> "Error", statusCode |-> statusCode]>>]
    ELSE [is_null |-> FALSE, reason |-> "none",
          data |-> IF method = "GET"
                   THEN [results |-> body, next |-> header_link_next(headerLink)]
                   ELSE data,
          log |-> <<>>]

\* The "end" listener of the revision in use.
response_end(version, method, statusCode, headerLink, body, data) ==
    IF version = "2020-01"
    THEN response_end_2020_01(method, statusCode, headerLink, body, data)
    ELSE response_end_2020_10(method, statusCode, headerLink, body, data)

\* The request make_request sends: https.request(options, ...).
new_request(n, id, method, target) ==
    [n |-> n, id |-> id, method |-> method, target |-> target, status |-> 0]

\* The PUT of upload_file: request_data carries the content of path read as
\* base64 under "attachment" when is_binary, as utf-8 under "value" otherwise.
upload_request(n, id, key, path, is_binary) ==
    [n |-> n, id |-> id, method |-> "PUT", target |-> key, status |-> 0,
     path |-> path, value_type |-> IF is_binary THEN "attachment" ELSE "value"]

\* A call of the continuation given to requestor number n.
continuation_call(n, op, r, value) ==
    [n |-> n, op |-> op, is_null |-> r.is_null, reason |-> r.reason, value |-> value]

\* The remote after it answered method for key with statusCode.
remote_after(remote, method, key, statusCode) ==
    IF ~Is2xx(statusCode) THEN remote
    ELSE IF method = "PUT" THEN remote \cup {key}
    ELSE IF method = "DELETE" THEN remote \ {key}
    ELSE remote

\* A requestor can be called: none is running.
ApiReady ==
    /\ api_pc \in {"idle", "done"}
    /\ api_op.n < MaxApiOps

AssetInit ==
    /\ api_version \in ApiVersions
    /\ api_remote \in {{}, AssetKeys}
    /\ IF api_version = "2020-10" THEN api_pages \in RemotePages ELSE api_pages = <<>>
    /\ api_pc = "idle"
    /\ api_op = [op |-> "none", n |-> 0]
    /\ api_sent = <<>>
    /\ api_conts = <<>>
    /\ api_resources = <<>>
    /\ api_log = <<>>
    /\ ThrottleIdle
    /\ SyncIdle
    /\ AsyncIdle
    /\ ThemeIdle
    /\ ScriptIdle
    /\ PkgIdle

\* upload_file(path, key, is_binary)(cb, data), as caller calls it for
\* file_path: fs.readFile(path, file_encoding) is started.
UploadFile(caller, file_path) ==
    LET a == upload_file_arguments(caller, file_path)
    IN  /\ ApiReady
        /\ api_op' = [op |-> "upload_file", n |-> api_op.n + 1, caller |-> caller,
                      path |-> a.path, key |-> a.key, is_binary |-> a.is_binary]
        /\ api_pc' = "reading"
        /\ UNCHANGED <<api_version, api_remote, api_pages, api_sent, api_conts,
                       api_resources, api_log,
                       throttle_vars, sync_vars, async_vars, theme_vars, script_vars,
                       pkg_vars>>

\* The callback of fs.readFile in upload_file: if (err) throw err; otherwise
\* the PUT is handed to the requestor of make_requestor.
UploadFileReadDone(ok) ==
    /\ api_pc = "reading"
    /\ IF ok
       THEN /\ api_pc' = "requesting"
            /\ submitted' = submitted + 1
            /\ SetThrottle(requestor(ThrottleState, submitted + 1))
            /\ api_sent' = Append(api_sent,
                   upload_request(api_op.n, submitted + 1, api_op.key, api_op.path,
                                  api_op.is_binary))
       ELSE /\ api_pc' = "uncaught"
            /\ UNCHANGED <<api_sent, throttle_vars>>
    /\ UNCHANGED <<api_version, api_remote, api_pages, api_op, api_conts,
                   api_resources, api_log,
                   sync_vars, async_vars, theme_vars, script_vars, pkg_vars>>

\* delete_file(key)(cb, data): make_requestor("DELETE", "Asset", ...)(cb, data).
DeleteFile(key) ==
    /\ ApiReady
    /\ api_op' = [op |-> "delete_file", n |-> api_op.n + 1, key |-> key]
    /\ api_pc' = "requesting"
    /\ submitted' = submitted + 1
    /\ SetThrottle(requestor(ThrottleState, submitted + 1))
    /\ api_sent' = Append(api_sent,
           new_request(api_op.n + 1, submitted + 1, "DELETE", key))
    /\ UNCHANGED <<api_version, api_remote, api_pages, api_conts,
                   api_resources, api_log,
                   sync_vars, async_vars, theme_vars, script_vars, pkg_vars>>

\* download_resource(type, fields)(cb): resources is empty, the first page
\* is requested with the path of make_path ("2020-10" only).
DownloadResource ==
    /\ ApiReady
    /\ api_version = "2020-10"
    /\ api_op' = [op |-> "download_resource", n |-> api_op.n + 1]
    /\ api_pc' = "requesting"
    /\ api_resources' = <<>>
    /\ submitted' = submitted + 1
    /\ SetThrottle(requestor(ThrottleState, submitted + 1))
    /\ api_sent' = Append(api_sent,
           new_request(api_op.n + 1, submitted + 1, "GET", 1))
    /\ UNCHANGED <<api_version, api_remote, api_pages, api_conts, api_log,
                   sync_vars, async_vars, theme_vars, script_vars, pkg_vars>>

\* The continuation upload_file gives to the requestor of its PUT:
\* "2020-01" throws on null and calls cb(data); "2020-10" calls cb(data, reason).
upload_file_done(version, r) ==
    [throws |-> version = "2020-01" /\ r.is_null,
     is_null |-> r.is_null, reason |-> r.reason]

\* The response of the running requestor's request ends with statusCode:
\* the "end" listener of make_request runs, and with it the continuation the
\* requestor gave it; done() of download_resource adds the page to resources
\* and asks for data.next when there is one.
ApiResponseEnd(statusCode) ==
    LET req == api_sent[Len(api_sent)]
        is_get == req.method = "GET"
        headerLink == IF is_get THEN page_link(req.target, Len(api_pages)) ELSE <<>>
        body == IF is_get /\ Is2xx(statusCode) THEN api_pages[req.target] ELSE <<>>
        r == response_end(api_version, req.method, statusCode, headerLink, body, NoData)
        answered == [api_sent EXCEPT ![Len(api_sent)].status = statusCode]
        resources == api_resources \o r.data.results
    IN  /\ api_pc = "requesting"
        /\ req.status = 0
        /\ \E i \in 1..Len(started) : started[i] = req.id
        /\ api_log' = api_log \o r.log
        /\ api_remote' = IF is_get THEN api_remote
                         ELSE remote_after(api_remote, req.method, req.target, statusCode)
        /\ IF api_op.op = "upload_file"
           THEN LET u == upload_file_done(api_version, r)
                IN  /\ api_pc' = IF u.throws THEN "uncaught" ELSE "done"
                    /\ api_conts' = IF u.throws THEN api_conts
                                    ELSE Append(api_conts,
                                           continuation_call(api_op.n, "upload_file", u, "data"))
                    /\ api_sent' = answered
                    /\ UNCHANGED <<api_resources, throttle_vars>>
           ELSE IF api_op.op = "delete_file"
           THEN /\ api_pc' = "done"
                /\ api_conts' = Append(api_conts,
                       continuation_call(api_op.n, "delete_file", r, "data"))
                /\ api_sent' = answered
                /\ UNCHANGED <<api_resources, throttle_vars>>
           ELSE IF r.is_null
           THEN /\ api_pc' = "done"
                /\ api_conts' = Append(api_conts,
                       continuation_call(api_op.n, "download_resource", r, <<>>))
                /\ api_sent' = answered
                /\ UNCHANGED <<api_resources, throttle_vars>>
           ELSE IF r.data.next # 0
           THEN /\ api_pc' = "requesting"
                /\ api_resources' = resources
                /\ submitted' = submitted + 1
                /\ SetThrottle(requestor(ThrottleState, submitted + 1))
                /\ api_sent' = Append(answered,
                       new_request(api_op.n, submitted + 1, "GET", r.data.next))
                /\ UNCHANGED api_conts
           ELSE /\ api_pc' = "done"
                /\ api_resources' = resources
                /\ api_conts' = Append(api_conts,
                       continuation_call(api_op.n, "download_resource", r, resources))
                /\ api_sent' = answered
                /\ UNCHANGED throttle_vars
        /\ UNCHANGED <<api_version, api_pages, api_op,
                       sync_vars, async_vars, theme_vars, script_vars, pkg_vars>>

\* The running requestor's request emits "error": log("Error", err); the
\* continuation is not called.
ApiRequestError ==
    LET req == api_sent[Len(api_sent)]
    IN  /\ api_pc = "requesting"
        /\ req.status = 0
        /\ \E i \in 1..Len(started) : started[i] = req.id
        /\ api_sent' = [api_sent EXCEPT ![Len(api_sent)].status = -1]
        /\ api_log' = Append(api_log, [log |-> "Error", statusCode |-> -1])
        /\ UNCHANGED <<api_version, api_remote, api_pages, api_pc, api_op, api_conts,
                       api_resources,
                       throttle_vars, sync_vars, async_vars, theme_vars, script_vars,
                       pkg_vars>>

AssetNext ==
    \/ \E caller \in UploadCallers, file_path \in AssetFiles :
          UploadFile(caller, file_path)
    \/ \E ok \in BOOLEAN : UploadFileReadDone(ok)
    \/ \E key \in AssetKeys : DeleteFile(key)
    \/ DownloadResource
    \/ \E statusCode \in StatusCodes : ApiResponseEnd(statusCode)
    \/ ApiRequestError

AssetSpec == AssetInit /\ [][AssetNext]_vars

----------------------------------------------------------------------------
\* Claims about the throttle.

InOverflow(id) == \E i \in 1..Len(overflow) : overflow[i] = id
HasStarted(id) == \E i \in 1..Len(started) : started[i] = id

\* C1: in every reachable state 0 <= request_count <= bucket_limit, and every
\* step that starts a request (immediately or from a drain tick) is taken in
\* a state where request_count < bucket_limit.
C1_BucketNeverOverfull ==
    /\ [](request_count >= 0 /\ request_count <= bucket_limit)
    /\ [][Len(started') > Len(started) => request_count < bucket_limit]_vars

\* C1 witness: the bucket is full, a request waits in the queue and at least
\* one request beyond the first bucket_limit has been started by a drain tick.
C1_Witness ==
    /\ request_count = bucket_limit
    /\ Len(overflow) > 0
    /\ Len(started) > bucket_limit

\* C2: requests are started in submission order: the k-th request started is
\* the k-th request submitted, so no request starts before an earlier one.
C2_StartsInSubmissionOrder ==
    \A i \in 1..Len(started) : started[i] = i

\* C2 witness: requests were started both immediately and from the queue
\* while two or more requests were still queued behind them.
C2_Witness ==
    /\ Len(started) > bucket_limit + 1
    /\ Len(overflow) >= 2

\* C3: under fair firing of the leak and drain timers every request pushed
\* onto the overflow queue is eventually started.  An entry leaves the queue
\* only in the step that starts it (shift, then make_request), and the
\* submissions of a run are finitely many, so this is: whenever the queue
\* holds an entry, the queue is eventually empty.
C3_QueuedEventuallyStarted ==
    (Len(overflow) > 0) ~> (Len(overflow) = 0)

----------------------------------------------------------------------------
\* Claims about run_sync.

\* C4: for every invocation of run_sync, whatever the requestors and whether
\* they call their continuation synchronously or asynchronously, cb is called
\* exactly once: never more than once, and once when the run has ended.
C4_OnDoneExactlyOnce ==
    /\ Len(sync_done) <= 1
    /\ sync_pc = "done" => Len(sync_done) = 1

----------------------------------------------------------------------------
\* Claims about run_async.

AsyncAllCheckedIn ==
    async_pc = "running" /\ \A i \in 1..async_n : async_task[i] = "checked_in"

\* C6: for every requestors array, of any length including zero, in which
\* every requestor reports success, cb is called exactly once, and only after
\* the number of completions equals the number of requestors.
C6_AllSucceedOneCallAtTheEnd ==
    (\A i \in 1..async_n : async_result[i] # "fail") =>
        /\ Len(async_done) <= 1
        /\ Len(async_done) = 1 => num_checked_in = async_n
        /\ AsyncAllCheckedIn => Len(async_done) = 1

\* C7: once a requestor has reported failure, cb has been called with
\* (null, reason) exactly once and is not called again, whatever completes
\* later and in whatever order.
C7_FirstFailureWins ==
    (\E i \in 1..async_n : async_result[i] = "fail") =>
        /\ Len(async_done) = 1
        /\ async_done[1].failed

----------------------------------------------------------------------------
\* Claims about the theme watcher.

ThemeResolved == theme_out.handled /\ ~theme_out.returned_early

\* C8: for a file directly inside a top-level theme directory D the resolved
\* remote key is "D/<filename>", and for a file inside templates/customers it
\* is "templates/customers/<filename>".
C8_DirectFileKey ==
    ThemeResolved =>
        /\ theme_input.sub = <<>> =>
               /\ theme_out.key = theme_input.dir \o <<"/">> \o theme_input.name
               /\ theme_out.event_key = theme_out.key
        /\ (theme_input.dir = <<"t", "e", "m", "p", "l", "a", "t", "e", "s">> /\ theme_input.sub = <<"c", "u", "s", "t", "o", "m", "e", "r", "s">>) =>
               /\ theme_out.key = <<"t", "e", "m", "p", "l", "a", "t", "e", "s", "/", "c", "u", "s", "t", "o", "m", "e", "r", "s", "/">> \o theme_input.name
               /\ theme_out.event_key = theme_out.key

\* C8 witness: an upload was asked for a file directly inside theme/layout.
C8_Witness ==
    /\ ThemeResolved
    /\ theme_input.dir = <<"l", "a", "y", "o", "u", "t">>
    /\ theme_input.sub = <<>>
    /\ theme_out.op = "upload"
    /\ theme_out.key = <<"l", "a", "y", "o", "u", "t", "/", "f", "o", "o", ".", "l", "i", "q", "u", "i", "d">>

\* C9: for every top-level theme directory D and every one-level subdirectory
\* S of D, whatever S is named (templates/customers apart), the file
\* theme/D/S/<filename> resolves to the key "D/<filename>".
C9_SubdirectoryFlattened ==
    (/\ ThemeResolved
     /\ theme_input.sub # <<>>
     /\ ~(theme_input.dir = <<"t", "e", "m", "p", "l", "a", "t", "e", "s">> /\ theme_input.sub = <<"c", "u", "s", "t", "o", "m", "e", "r", "s">>)) =>
        /\ theme_out.key = theme_input.dir \o <<"/">> \o theme_input.name
        /\ theme_out.event_key = theme_out.key

\* The handled event is for a file directly under theme/assets whose name
\* contains ".min.".
MinifiedAssetEvent ==
    /\ theme_out.handled
    /\ theme_input.dir = <<"a", "s", "s", "e", "t", "s">>
    /\ theme_input.sub = <<>>
    /\ Includes(theme_input.name, <<".", "m", "i", "n", ".">>)

\* What C14 asks of such an event: no upload on add and change, a delete of
\* assets/<filename> on unlink.
MinifiedAssetRule ==
    /\ theme_input.event \in {"add", "change"} => theme_out.op = "none"
    /\ theme_input.event = "unlink" =>
          /\ theme_out.op = "delete"
          /\ theme_out.key = <<"a", "s", "s", "e", "t", "s", "/">> \o theme_input.name

C14_WitnessUnlink ==
    /\ MinifiedAssetEvent
    /\ theme_input.name = <<"m", "a", "i", "n", ".", "m", "i", "n", ".", "j", "s">>
    /\ theme_input.event = "unlink"
    /\ theme_out.op = "delete"

----------------------------------------------------------------------------
\* Claims about the scripts watcher.

\* The handled event is a change of a file directly inside the scripts root.
StandaloneChange ==
    /\ script_input.event = "change"
    /\ PathParse(script_input.path).dir = paths_scripts

\* assets/<name>.min.js for the handled path scripts/<name>.js
StandaloneKey ==
    LET parts == Split(script_input.path, "/")
        base == parts[Len(parts)]
    IN  <<"a", "s", "s", "e", "t", "s", "/">> \o SubSeq(base, 1, Len(base) - 3) \o <<".", "m", "i", "n", ".", "j", "s">>

\* C10: for a change event on a standalone script scripts/<name>.js the
\* sequence is minify scripts/<name>.js, then upload, then the reload signal.
\* The minify step is the first requestor invoked; a PUT of key
\* assets/<name>.min.js as text (is_binary false) is submitted only once the
\* upload step was invoked with what the minify step passed on; and a reload
\* signal is armed or sent only once the request was answered and the
\* sequence ended with one successful call, the signal carrying log_type
\* "Uploaded" and that key.
C10_StandaloneChangeSequence ==
    StandaloneChange =>
        /\ Len(sync_invoked) >= 1
        /\ sync_invoked[1] = [task |-> 1, value |-> Context(<<>>)]
        /\ sync_tasks[1].op = "minify_js"
        /\ sync_tasks[1].input = script_input.path
        /\ script_request.state # "none" =>
              /\ Len(sync_invoked) = 2
              /\ sync_invoked[2] = [task |-> 2, value |-> Context(<<1>>)]
              /\ sync_tasks[2].op = "upload_file"
              /\ script_request.method = "PUT"
              /\ script_request.key = StandaloneKey
              /\ script_request.value_type = "value"
        /\ (reload_timers # <<>> \/ websocket = "terminated"
              \/ \E i \in 1..Len(script_log) : script_log[i].log # "Error") =>
              /\ script_request.state = "answered"
              /\ sync_done = <<[value |-> Context(<<1, 2>>), reason |-> NoReason]>>
        /\ \A i \in 1..Len(reload_timers) :
              reload_timers[i] = [log_type |-> "Uploaded", key |-> StandaloneKey]
        /\ \A i \in 1..Len(script_log) :
              script_log[i].log = "Error" \/ script_log[i].key = StandaloneKey

\* scripts/checkout.js changed, was minified and uploaded, and the connected
\* client was sent the reload signal logged as "Uploaded".
C10_Witness ==
    /\ StandaloneChange
    /\ script_input.path = PathJoin(<<paths_scripts, <<"c", "h", "e", "c", "k", "o", "u", "t", ".", "j", "s">>>>)
    /\ script_request.state = "answered"
    /\ websocket = "terminated"
    /\ script_log = <<[log |-> "Uploading", key |-> <<"a", "s", "s", "e", "t", "s", "/", "c", "h", "e", "c", "k", "o", "u", "t", ".", "m", "i", "n", ".", "j", "s">>],
                      [log |-> "Uploaded", key |-> <<"a", "s", "s", "e", "t", "s", "/", "c", "h", "e", "c", "k", "o", "u", "t", ".", "m", "i", "n", ".", "j", "s">>]>>
\* The handled event is an add or a change of a file inside the directory
\* group of the scripts root, an add arriving outside the ignore window.
GroupFileEvent(group) ==
    /\ script_input.event \in {"add", "change"}
    /\ script_input.event = "add" => ~script_input.ignored
    /\ LET parts == Split(script_input.path, "/")
           root == Split(paths_scripts, "/")
       IN  /\ Len(parts) > Len(root) + 1
           /\ SubSeq(parts, 1, Len(root)) = root
           /\ parts[Len(root) + 1] = group

ScriptGroupNames == {<<"w", "i", "d", "g", "e", "t", "s">>, <<"g", "a", "l", "l", "e", "r", "y">>, <<"t", "e", "m", "p", "l", "a", "t", "e", "s">>}

\* C11: an add or change event on a file inside scripts/<group>/ starts one
\* upload sequence with the key assets/<group>.min.js, which lists the files
\* of scripts/<group> and minifies the files listed (its input comes from
\* the data of the sequence, not from a path).
C11_GroupFilePackagesGroup ==
    \A group \in ScriptGroupNames :
        GroupFileEvent(group) =>
            /\ script_decision.call = "packageJsModuleGroup"
            /\ script_data = [log_type |-> "Uploaded",
                              key |-> <<"a", "s", "s", "e", "t", "s", "/">> \o group \o <<".", "m", "i", "n", ".", "j", "s">>]
            /\ Len(sync_tasks) = 4
            /\ sync_tasks[1].op = "get_all_file_paths"
            /\ sync_tasks[1].dir = PathJoin(<<paths_scripts, group>>)
            /\ sync_tasks[3].op = "minify_js"
            /\ sync_tasks[3].input = <<"f", "r", "o", "m", " ", "d", "a", "t", "a">>
            /\ sync_tasks[4].op = "upload_file"
            /\ sync_tasks[4].key = script_data.key
\* The handled event is a directory event for scripts/<group>.
GroupDirEvent(event, group) ==
    /\ script_input.event = event
    /\ script_input.path = PathJoin(<<paths_scripts, group>>)

\* C13: an addDir event for scripts/<group> starts an upload sequence that
\* lists and packages scripts/<group> under the key assets/<group>.min.js,
\* and an unlinkDir event for scripts/<group> starts a delete sequence for the
\* key assets/<group>.min.js.
C13_DirEventActsOnItsGroup ==
    \A group \in ScriptGroupNames :
        LET key == <<"a", "s", "s", "e", "t", "s", "/">> \o group \o <<".", "m", "i", "n", ".", "j", "s">>
        IN  /\ GroupDirEvent("addDir", group) =>
                  /\ script_decision.call = "packageJsModuleGroup"
                  /\ script_data = [log_type |-> "Uploaded", key |-> key]
                  /\ sync_tasks[1].op = "get_all_file_paths"
                  /\ sync_tasks[1].dir = PathJoin(<<paths_scripts, group>>)
            /\ GroupDirEvent("unlinkDir", group) =>
                  /\ script_decision.call = "deleteGrouplessJsModule"
                  /\ script_data = [log_type |-> "Deleted", key |-> key]
                  /\ sync_tasks[1].op = "delete_file"
                  /\ sync_tasks[1].key = key
                  /\ script_request.method = "DELETE"
                  /\ script_request.key = key

----------------------------------------------------------------------------
\* Claims about the packaging of a module group.

GroupHasManifest ==
    /\ GroupPath \in DOMAIN disk
    /\ \E i \in 1..Len(disk[GroupPath]) : disk[GroupPath][i] = ManifestEntry

NoReadFailed == \A i \in 1..Len(async_result) : async_result[i] # "fail"

InGroup(rel) == PathJoin(<<GroupPath, rel>>)

\* The order each manifest tried asks for: the files it names, a name that
\* is no file of the group standing for the files of that sub-directory in
\* lexical order.
ManifestOrder ==
    (<<"b", ",", " ", "a">> :> <<InGroup(<<"b", ".", "j", "s">>), InGroup(<<"a", ".", "j", "s">>)>>)
    @@ (<<"a", ",", "b">> :> <<InGroup(<<"a", ".", "j", "s">>), InGroup(<<"b", ".", "j", "s">>)>>)
    @@ (<<"b", ",", "\n", "s", "u", "b", ",", " ", "a", "\n">> :>
            <<InGroup(<<"b", ".", "j", "s">>), InGroup(<<"s", "u", "b", "/", "c", ".", "j", "s">>), InGroup(<<"s", "u", "b", "/", "d", ".", "j", "s">>),
              InGroup(<<"a", ".", "j", "s">>)>>)
    @@ (<<"s", "u", "b", ",", "b">> :> <<InGroup(<<"s", "u", "b", "/", "c", ".", "j", "s">>), InGroup(<<"s", "u", "b", "/", "d", ".", "j", "s">>), InGroup(<<"b", ".", "j", "s">>)>>)
    @@ (<<"d", ",", " ", "a", ",", " ", "c">> :> <<InGroup(<<"s", "u", "b", "/", "d", ".", "j", "s">>), InGroup(<<"a", ".", "j", "s">>), InGroup(<<"s", "u", "b", "/", "c", ".", "j", "s">>)>>)

----------------------------------------------------------------------------
\* Claims about the sequences of the theme watcher (ThemeSpec).

IsPrefix(s, t) == Len(s) <= Len(t) /\ \A i \in 1..Len(s) : s[i] = t[i]

\* An add or change event was handled for a file of theme/snippets/inline-scripts.
InlineScriptEvent ==
    /\ theme_out.handled
    /\ theme_input.event \in {"add", "change"}
    /\ theme_input.dir = <<"s", "n", "i", "p", "p", "e", "t", "s">>
    /\ theme_input.sub = <<"i", "n", "l", "i", "n", "e", "-", "s", "c", "r", "i", "p", "t", "s">>

InlineArtifact == PathJoin(<<paths_local_data, theme_input.name>>)

\* The steps of the claimed sequence for the handled inline-scripts file.
InlineScriptSteps ==
    <<[op |-> "minify", from |-> theme_input.path, to |-> InlineArtifact],
      [op |-> "minified"],
      [op |-> "read", path |-> InlineArtifact,
       key |-> <<"s", "n", "i", "p", "p", "e", "t", "s", "/">> \o theme_input.name, is_binary |-> theme_out.is_binary],
      [op |-> "request", method |-> "PUT", key |-> <<"s", "n", "i", "p", "p", "e", "t", "s", "/">> \o theme_input.name],
      [op |-> "response", method |-> "PUT"],
      [op |-> "unlink", path |-> InlineArtifact],
      [op |-> "restartSocket", log_type |-> "Uploaded"],
      [op |-> "unlinked"]>>

\* C15: for an add or change event on a file under theme/snippets/inline-scripts
\* the steps taken are, in this order, the minify of the authored file into the
\* local-data artifact, the upload of the artifact under snippets/<name> (read
\* and PUT only after the minify has called back), and the unlink of the
\* artifact; no step writes to or unlinks the authored file.
C15_InlineScriptSequence ==
    InlineScriptEvent =>
        /\ IsPrefix(theme_steps, InlineScriptSteps)
        /\ InlineArtifact # theme_input.path
        /\ \A i \in 1..Len(theme_steps) :
              /\ theme_steps[i].op = "minify" => theme_steps[i].to # theme_input.path
              /\ theme_steps[i].op = "unlink" => theme_steps[i].path # theme_input.path

\* An inline-scripts file went through the whole sequence.
C15_Witness ==
    /\ InlineScriptEvent
    /\ theme_pc = "done"
    /\ Len(theme_steps) = Len(InlineScriptSteps)

\* The times the client connection was ended for the event: each is preceded
\* by log(data.log_type, data.key).
RefreshSignals ==
    Cardinality({i \in 1..Len(script_log) :
                    script_log[i].log \in {"Uploaded", "Deleted", "Upload Failed"}})

\* The upload or delete sequence of the handled theme event has run through.
ThemeSequenceCompleted ==
    /\ theme_pc = "done"
    /\ theme_input.event \in {"add", "change", "unlink"}
    /\ ~theme_out.returned_early

\* C16: with a live-reload client connected, an upload or delete sequence of
\* the theme watcher ends the client connection at most once, the signal is
\* set up only after the sequence's remote request has called its
\* continuation, and a completed sequence has exactly one signal, sent or
\* waiting for its timer.
C16_OneSignalAfterLastRemoteOperation ==
    websocket # "undefined" =>
        /\ RefreshSignals + Len(reload_timers) <= 1
        /\ RefreshSignals + Len(reload_timers) = 1 =>
              /\ script_request.state = "answered"
              /\ theme_steps[Len(theme_steps)].op \in {"restartSocket", "unlinked"}
        /\ ThemeSequenceCompleted => RefreshSignals + Len(reload_timers) = 1
        /\ RefreshSignals = 1 => websocket = "terminated" \/ websocket = "open"

\* A completed sequence whose signal ended the client connection.
C16_Witness ==
    /\ ThemeSequenceCompleted
    /\ RefreshSignals = 1
    /\ websocket = "terminated"

\* A step of the theme event's sequence reported an error: the minify, the
\* read of upload_file, the request or the unlink of the artifact.
ThemeSequenceFailed ==
    \/ theme_pc = "uncaught"
    \/ script_request.state = "errored"

\* A log line for the failure of the event's sequence.
ThemeFailureLogged ==
    \E i \in 1..Len(script_log) : script_log[i].log \in {"Error", "Upload Failed"}

\* C17: when an upload or delete sequence of the theme watcher fails, the
\* failure is logged, a reload signal is still sent (or its timer is set) for
\* the event, and the process goes on handling watch events.
C17_FailureLoggedSignalledSurvived ==
    ThemeSequenceFailed =>
        /\ ThemeFailureLogged
        /\ RefreshSignals + Len(reload_timers) >= 1
        /\ ~Crashed

----------------------------------------------------------------------------
\* Claims about the requestors of the remote asset API (AssetSpec).

\* The request made by requestor number n for method (the last one if several).
RequestOf(n, method) ==
    LET made == SelectSeq(api_sent, LAMBDA q : q.n = n /\ q.method = method)
    IN  made[Len(made)]

\* C18: whenever the continuation given to upload_file has been called, it
\* was called with null and a reason if the remote answered the PUT with a
\* status outside 2xx, and with the data object if it answered 2xx.
C18_WriteAssetReportsStatus ==
    \A i \in 1..Len(api_conts) :
        api_conts[i].op = "upload_file" =>
            LET statusCode == RequestOf(api_conts[i].n, "PUT").status
            IN  IF Is2xx(statusCode)
                THEN ~api_conts[i].is_null
                ELSE api_conts[i].is_null /\ api_conts[i].reason # "none"

\* delete_file(key) was called twice in a row and both continuations were
\* called; the remote answered the first call 2xx, removing the key, and
\* the second call with a status that is not a server error.
DeletedTwice(i) ==
    /\ i + 1 <= Len(api_conts)
    /\ api_conts[i].op = "delete_file"
    /\ api_conts[i + 1].op = "delete_file"
    /\ api_conts[i + 1].n = api_conts[i].n + 1
    /\ RequestOf(api_conts[i].n, "DELETE").target
          = RequestOf(api_conts[i + 1].n, "DELETE").target
    /\ Is2xx(RequestOf(api_conts[i].n, "DELETE").status)
    /\ RequestOf(api_conts[i + 1].n, "DELETE").status < 500

\* C19: delete_file(key) called twice in a row, against a remote that removed
\* the key on the first call, gives both continuations the same outcome
\* class: both the data object or both null.
C19_DeleteTwiceSameOutcome ==
    \A i \in 1..Len(api_conts) :
        DeletedTwice(i) => api_conts[i].is_null = api_conts[i + 1].is_null

\* C19 (amended): delete_file(key) called twice in a row, against a remote
\* that removed the key on the first call, gives both continuations the same
\* outcome class when the remote answers the second call 2xx as well; a
\* second call that fails was answered with a status outside 2xx and fails
\* with the reason of every failed request, not with one of its own.
C19_SecondDeleteFollowsStatus ==
    \A i \in 1..Len(api_conts) :
        DeletedTwice(i) =>
            LET statusCode == RequestOf(api_conts[i + 1].n, "DELETE").status
            IN  /\ Is2xx(statusCode) =>
                      api_conts[i].is_null = api_conts[i + 1].is_null
                /\ api_conts[i + 1].is_null =>
                      /\ ~Is2xx(statusCode)
                      /\ api_conts[i + 1].reason = "Request failed"

\* The second delete of a key was answered 404 and reported as failed.
C19_Witness ==
    \E i \in 1..Len(api_conts) :
        /\ DeletedTwice(i)
        /\ RequestOf(api_conts[i + 1].n, "DELETE").status = 404
        /\ api_conts[i + 1].is_null

RECURSIVE AllItems(_, _)
\* The items of pages 1..n of pages, in page order.
AllItems(pages, n) ==
    IF n = 0 THEN <<>> ELSE AllItems(pages, n - 1) \o pages[n]

\* The page requests made by requestor number n, in the order made.
PageRequests(n) == SelectSeq(api_sent, LAMBDA q : q.n = n /\ q.method = "GET")

\* C20: a run of the requestor of download_resource against N pages, of
\* which pages 1..N-1 carry a rel="next" link, asks for pages 1, 2, ... in
\* this order, each only after the previous one was answered, and never for
\* more than N; when it calls its continuation with a result it has made
\* exactly N requests, and the one call carries the items of pages 1..N in
\* page order.
C20_PaginatedDownload ==
    /\ \A n \in 1..api_op.n :
          LET reqs == PageRequests(n)
          IN  /\ Len(reqs) <= Len(api_pages)
              /\ \A k \in 1..Len(reqs) :
                    /\ reqs[k].target = k
                    /\ k < Len(reqs) => Is2xx(reqs[k].status)
    /\ \A i \in 1..Len(api_conts) :
          api_conts[i].op = "download_resource" =>
              /\ \A j \in 1..Len(api_conts) : api_conts[j].n = api_conts[i].n => j = i
              /\ ~api_conts[i].is_null =>
                    /\ Len(PageRequests(api_conts[i].n)) = Len(api_pages)
                    /\ api_conts[i].value = AllItems(api_pages, Len(api_pages))
    /\ (api_op.op = "download_resource" /\ api_pc = "requesting" /\ Len(api_sent) > 0) =>
          api_sent[Len(api_sent)].status <= 0

\* A download over three pages ended with the items of all of them.
C20_Witness ==
    \E i \in 1..Len(api_conts) :
        /\ api_conts[i].op = "download_resource"
        /\ ~api_conts[i].is_null
        /\ Len(api_pages) = 3
        /\ Len(api_conts[i].value) = 6

\* C21: every PUT of upload_file, on the path of the theme watcher and on the
\* path of the bulk deploy, carries the file as an attachment exactly when
\* its extension is in the list of binary formats (the one of index.js), and
\* as a value otherwise; two uploads of the same file carry it the same way.
C21_SameValueTypeOnBothPaths ==
    \A i \in 1..Len(api_sent) :
        api_sent[i].method = "PUT" =>
            /\ (api_sent[i].value_type = "attachment")
                  = ArrayIncludes(non_string_formats, PathParse(api_sent[i].path).ext)
            /\ \A j \in 1..Len(api_sent) :
                  (api_sent[j].method = "PUT" /\ api_sent[j].path = api_sent[i].path)
                      => api_sent[j].value_type = api_sent[i].value_type

----------------------------------------------------------------------------
\* Further claims about the throttle (ThrottleSpec, ThrottleFairSpec).

\* C22: whenever request_count > 0 a leak cycle is running (is_polling is
\* true and a leak timer is pending), so that every started request gets its
\* decrement.
C22_LeakCycleRunsWhileCountPositive ==
    request_count > 0 => (is_polling /\ poll_timers > 0)

\* C23: at any time at most one leak timer and at most one drain timer are
\* pending; is_polling is true exactly while a leak timer is pending and
\* is_throttling is true exactly while a drain timer is pending, so a cycle
\* that is already running is never started a second time.
C23_OneTimerPerCycle ==
    /\ poll_timers <= 1
    /\ throttle_timers <= 1
    /\ is_polling = (poll_timers = 1)
    /\ is_throttling = (throttle_timers = 1)

\* Both cycles run and requests were submitted while they ran: two requests
\* wait in the queue, the second pushed while the drain cycle was running.
C23_Witness ==
    /\ is_polling /\ poll_timers = 1
    /\ is_throttling /\ throttle_timers = 1
    /\ Len(overflow) >= 2
    /\ Len(started) >= 2

\* C24: in every reachable state a non-empty overflow queue has a drain
\* cycle running (is_throttling is true and a drain timer is pending); a
\* drain tick removes at most one entry from the queue, and removes one only
\* when request_count < bucket_limit.
C24_QueueHasDrainCycle ==
    /\ [](Len(overflow) > 0 => (is_throttling /\ throttle_timers > 0))
    /\ [][ThrottleTick =>
            /\ Len(overflow') >= Len(overflow) - 1
            /\ Len(overflow') < Len(overflow) => request_count < bucket_limit]_vars

\* Drain ticks have started queued requests (only they raise request_count
\* while no leak cycle runs) and requests still wait in the queue.
C24_Witness ==
    /\ Len(overflow) > 0
    /\ is_throttling /\ throttle_timers > 0
    /\ request_count > 0
    /\ ~is_polling

\* C25: a request submitted while the overflow queue is empty and
\* request_count < bucket_limit is started at submission and is not queued;
\* a request submitted in any other state is pushed onto the overflow queue
\* and is not started at submission.  In particular the first bucket_limit
\* requests submitted to an idle writer all start at submission.
C25_StartedOrQueuedAtSubmission ==
    /\ [][Submit =>
            LET id == submitted + 1
            IN  IF Len(overflow) = 0 /\ request_count < bucket_limit
                THEN /\ started' = Append(started, id)
                     /\ overflow' = overflow
                ELSE /\ overflow' = Append(overflow, id)
                     /\ started' = started]_vars
    /\ [](submitted <= bucket_limit =>
            (Len(started) = submitted /\ overflow = <<>>))

\* A burst of bucket_limit requests has started at submission, and a later
\* request was queued.
C25_Witness ==
    /\ submitted > bucket_limit
    /\ SubSeq(started, 1, bucket_limit) = [i \in 1..bucket_limit |-> i]
    /\ Len(overflow) > 0

\* C26: each submitted request is started at most once: no request is both
\* started and still in the overflow queue (a drained entry leaves the queue
\* in the step that starts it), no request occurs twice in the start history
\* or in the queue, and a request that ended in a failure is not started
\* again.
C26_StartedAtMostOnce ==
    /\ \A i, j \in 1..Len(started) : started[i] = started[j] => i = j
    /\ \A i, j \in 1..Len(overflow) : overflow[i] = overflow[j] => i = j
    /\ \A i \in 1..Len(started) : \A j \in 1..Len(overflow) : started[i] # overflow[j]
    /\ \A id \in failures :
          Cardinality({i \in 1..Len(started) : started[i] = id}) = 1

\* A request started from the queue has failed, later requests have been
\* started after the failure was seen, and others still wait.
C26_Witness ==
    /\ (bucket_limit + 1) \in failures
    /\ Len(started) > bucket_limit + 2
    /\ Len(overflow) > 0

----------------------------------------------------------------------------
\* Further claims about run_sync and run_async (SyncSpec, AsyncSpec).

\* The value requestor k passes to its continuation when it succeeds after
\* requestors 1..k-1 did: the context with the writes of requestors 1..k.
ValueAfter(k) == Context([i \in 1..k |-> i])

\* C27: in run_sync the requestors are invoked in array order; requestor k+1
\* is invoked only after requestor k has called its continuation with a value
\* other than null, and receives exactly that value (requestor 1 receives the
\* initial value); cb, when called with a value, receives the value of the
\* last requestor.
C27_EachTaskGetsThePreviousValue ==
    /\ \A j \in 1..Len(sync_invoked) :
          /\ sync_invoked[j].task = j
          /\ sync_invoked[j].value = ValueAfter(j - 1)
          /\ j > 1 => (sync_tasks[j - 1].ok /\ sync_waiting # j - 1)
    /\ \A d \in 1..Len(sync_done) :
          ~sync_done[d].value.is_null =>
              /\ Len(sync_invoked) = Len(sync_tasks)
              /\ sync_waiting = 0
              /\ sync_done[d].value = ValueAfter(Len(sync_tasks))

\* Three requestors, one of them with I/O, ran in turn and cb received the
\* value of the third.
C27_Witness ==
    /\ Len(sync_tasks) >= 3
    /\ \E k \in 1..Len(sync_tasks) : sync_tasks[k].kind = "async"
    /\ \E k \in 1..Len(sync_tasks) : sync_tasks[k].kind = "sync"
    /\ Len(sync_invoked) = Len(sync_tasks)
    /\ sync_done = <<[value |-> ValueAfter(Len(sync_tasks)), reason |-> NoReason]>>

\* Some requestor has not yet given check_in its result.
AsyncOutstanding ==
    \E i \in 1..async_n : async_task[i] # "checked_in"

\* C28: in run_async with a time limit, once the limit has elapsed while
\* requestors are still outstanding, no later completion of them, success or
\* failure, calls cb or raises an error.
C28_LateCompletionsIgnored ==
    [][(async_timer = "fired" /\ AsyncOutstanding) =>
           (async_done' = async_done /\ async_pc' # "uncaught")]_vars

\* C29: every requestor of a run_async batch is handed the initial value as
\* it was when run_async was called: it never sees a write made to it by
\* another requestor of the batch.
C29_TasksSeeOnlyTheInitialContext ==
    \A i \in 1..async_n : async_seen[i] = {}

----------------------------------------------------------------------------
\* Further claims about the packaging of a module group (PackageSpec).

\* C30: when the group has no _script-order manifest, what is written for
\* the minifier is the files of the group in lexical order of their paths,
\* whatever order the directory listings came back in.
C30_NoManifestLexicalOrder ==
    (~GroupHasManifest /\ NoReadFailed) =>
        \A k \in 1..Len(written) :
            /\ Len(data_files) = Cardinality(GroupEntries \cup SubEntries) - 1
            /\ written[k] = [i \in 1..Len(data_files) |->
                                 FileText(SortStrings(data_files)[i])]

----------------------------------------------------------------------------
\* Further claims about the scripts watcher (WindowSpec, ScriptSpec).

\* C31: a file-level add or unlink event that arrives while the window of a
\* directory event is still running (a startDelay() timer is pending) starts
\* no upload or delete sequence, also when several directory events arrived
\* less than one window apart.
C31_FileEventsSuppressedInWindow ==
    (script_input.event \in {"add", "unlink"} /\ script_input.window > 0) =>
        script_decision.call = "none"

\* The handled event is for a file inside the directory group of the scripts
\* root.
InScriptGroup(group) ==
    LET parts == Split(script_input.path, "/")
        root == Split(paths_scripts, "/")
    IN  /\ Len(parts) > Len(root) + 1
        /\ SubSeq(parts, 1, Len(root)) = root
        /\ parts[Len(root) + 1] = group

\* C32: outside the ignore window an unlink event for a standalone module
\* scripts/<name>.js starts a delete sequence (the remote delete of
\* assets/<name>.min.js, then the removal of the local minified copy), and an
\* unlink event for a file inside scripts/<group>/ packages that group again.
C32_UnlinkProcessedOutsideWindow ==
    (script_input.event = "unlink" /\ ~script_input.ignored
        /\ script_input.window = 0) =>
        LET key == module_key(script_input.path)
        IN  /\ PathParse(script_input.path).dir = paths_scripts =>
                  /\ script_decision.call = "deleteGrouplessJsModule"
                  /\ script_data = [log_type |-> "Deleted", key |-> key]
                  /\ sync_tasks[1].op = "delete_file"
                  /\ sync_tasks[1].key = key
                  /\ sync_tasks[2].op = "unlink_file"
                  /\ sync_tasks[2].path = PathJoin(<<paths_theme, key>>)
            /\ \A group \in {<<"w", "i", "d", "g", "e", "t", "s">>, <<"g", "a", "l", "l", "e", "r", "y">>} :
                  InScriptGroup(group) =>
                      /\ script_decision.call = "packageJsModuleGroup"
                      /\ script_decision.arg = PathJoin(<<paths_scripts, group>>)

----------------------------------------------------------------------------
\* Further claims about the requestors of the remote asset API (AssetSpec).

\* C33: when a started request fails with a network-level error (its "error"
\* event, no response), the continuation of its operation is called with the
\* failure sentinel; the throttle is left as it was (the bucket within its
\* limit, the leak cycle's flag and timer in step).
C33_NetworkErrorReportedAsFailure ==
    /\ \A i \in 1..Len(api_sent) :
          api_sent[i].status = -1 =>
              \E c \in 1..Len(api_conts) :
                  api_conts[c].n = api_sent[i].n /\ api_conts[c].is_null
    /\ request_count \in 0..bucket_limit
    /\ is_polling = (poll_timers = 1)

\* The callback of fs.readFile of the running upload_file has run and no PUT
\* was made for it: the read failed.
UploadReadFailed ==
    /\ api_op.op = "upload_file"
    /\ api_pc # "reading"
    /\ ~\E i \in 1..Len(api_sent) :
           api_sent[i].n = api_op.n /\ api_sent[i].method = "PUT"

\* C34: when reading the local file about to be uploaded fails, no remote
\* request is made for it, upload_file calls its continuation with the
\* failure sentinel (which ends the chain it is part of), and no exception
\* reaches the event loop, so that later events are still handled.
C34_ReadFailureConfinedToItsChain ==
    UploadReadFailed =>
        /\ api_pc # "uncaught"
        /\ \E c \in 1..Len(api_conts) :
              api_conts[c].n = api_op.n /\ api_conts[c].is_null

----------------------------------------------------------------------------
\* Further claims about the theme watcher (ThemeSpec).

\* The fs.unlink of the minified artifact of an inline script was started
\* after its upload, its callback has run, and the file was not removed.
ArtifactUnlinkFailed ==
    /\ theme_pc # "unlinking"
    /\ \E i \in 1..Len(theme_steps) : theme_steps[i].op = "unlink"
    /\ ~\E i \in 1..Len(theme_steps) : theme_steps[i].op = "unlinked"

\* C35: a failure to delete the minified artifact after the upload of an
\* inline script is only logged: no exception reaches the event loop, so the
\* reload timer of the event still fires and the watcher goes on.
C35_ArtifactUnlinkFailureOnlyLogged ==
    ArtifactUnlinkFailed =>
        /\ theme_pc = "done"
        /\ ~Crashed
        /\ \E i \in 1..Len(script_log) : script_log[i].log = "Error"

\* The timer of restartSocket has fired (it logs data.log_type before it
\* ends the connection) while no client had ever connected.
SignalledWithoutClient ==
    /\ websocket = "undefined"
    /\ \E i \in 1..Len(script_log) :
          script_log[i].log \in {"Uploaded", "Deleted", "Upload Failed"}

\* C36: sending the refresh signal when no live-reload client has ever
\* connected is a logged no-op: no exception reaches the event loop and the
\* watcher goes on handling events.
C36_SignalWithoutClientIsSafe ==
    SignalledWithoutClient => ~Crashed

\* C37: for every theme file directly inside a top-level theme directory,
\* inside one of its one-level subdirectories or inside templates/customers,
\* the key Deploy's buildMap gives the file equals the key theme_event_handler
\* resolved for the same path.
C37_DeployAndWatcherKeysAgree ==
    ThemeResolved =>
        buildMap_key(ThemeFilePath(theme_input.dir, theme_input.sub, theme_input.name))
            = theme_out.key

----------------------------------------------------------------------------
\* Further claims about the packaging of a module group (PackageSpec).

\* The texts of the files of data.files, in the order of data.files.
TextsOfDataFiles == [i \in 1..Len(data_files) |-> FileText(data_files[i])]

\* write_data has written the text for the minifier.
MinifierInvoked == pkg_pc \in {"minifying", "minified"}

\* What the later revision wrote is whole: one text for each file of data.files.
C38_MinifiedAfterEveryRead ==
    \A k \in 1..Len(written) :
        /\ Len(written[k]) = Len(data_files)
        /\ \A i \in 1..Len(written[k]) : written[k][i] # <<>>

\* What the later revision wrote is in the order of data.files.
C38_OrderedByIndex ==
    (MinifierInvoked /\ NoReadFailed) =>
        \A k \in 1..Len(written) : written[k] = TextsOfDataFiles

\* C38: what is concatenated for the minifier is the texts of data.files in
\* the order of data.files, whatever order the file reads completed in, in the
\* two revisions of minify_js_requestors, and the minifier is invoked only
\* after every file was read.
C38_ConcatenationFollowsDataFiles ==
    /\ C38_MinifiedAfterEveryRead
    /\ C38_OrderedByIndex
    /\ (MinifierInvoked /\ NoReadFailed) => file_data = TextsOfDataFiles

----------------------------------------------------------------------------
\* Claims about the listing of a directory tree (ListingSpec).

\* The non-directory entries of the tree on disk, by their paths.
FilesOfTree ==
    UNION {{q \o <<"/">> \o disk[q][i].name :
               i \in {j \in 1..Len(disk[q]) : ~disk[q][j].is_dir}} : q \in DOMAIN disk}

\* C39: the requestor of get_all_file_paths calls its continuation once and
\* only once, after every directory of the tree at every depth was read, and
\* data.files then holds every non-directory entry of the tree exactly once,
\* whatever order the directory reads of a round called back in.
C39_ListingCalledOnceWithEveryFile ==
    listing.owner = "caller" =>
        /\ Len(pkg_calls) <= 1
        /\ pkg_calls # <<>> =>
               /\ dirs_read = DOMAIN disk
               /\ listing.pending = {}
               /\ Len(data_files) = Cardinality(FilesOfTree)
               /\ {data_files[i] : i \in 1..Len(data_files)} = FilesOfTree
        /\ (listing.pending = {} /\ pkg_pc # "uncaught") => pkg_calls = <<"listed">>

\* The tree with every directory and every file was listed, theme/ listing
\* assets before snippets and the read of snippets calling back before the
\* read of assets.
C39_Witness ==
    /\ listing.owner = "caller"
    /\ DOMAIN disk = TreeDirs
    /\ pkg_calls = <<"listed">>
    /\ Len(data_files) = 4
    /\ \E i, j \in 1..Len(disk[paths_theme]) :
          /\ i < j
          /\ disk[paths_theme][i] = Dir(<<"a", "s", "s", "e", "t", "s">>)
          /\ disk[paths_theme][j] = Dir(<<"s", "n", "i", "p", "p", "e", "t", "s">>)
    /\ \E i, j \in 1..Len(data_files) :
          /\ i < j
          /\ data_files[i] = PathJoin(<<SnippetsPath, <<"c", "a", "r", "t", ".", "l", "i", "q", "u", "i", "d">>>>)
          /\ data_files[j] = PathJoin(<<AssetsPath, <<"l", "o", "g", "o", ".", "p", "n", "g">>>>)

====
